---- MODULE Spec2Model ----
(***************************************************************************)
(* Model of the saprobe-alac decoder.                                      *)
(*                                                                         *)
(* The streaming Decoder of the root package (Spec, SpecSeek): the packet  *)
(* table, the per-packet PCM buffer, Read, Seek, Position and Duration.    *)
(* The PacketDecoder (SpecPkt): BitBuffer, the element dispatcher, the     *)
(* SCE/LFE/CPE/DSE/FIL elements and the entropy decoder.  The operators of *)
(* the packet decoder come first, then those of the streaming Decoder,     *)
(* then the actions of both.                                               *)
(*                                                                         *)
(* A PCM byte is modelled by what produced it: <<"pcm", k, j>> is byte j   *)
(* of the PCM that decoding packet k yields, <<"zero", 0, j>> a byte of    *)
(* the freshly allocated buffer, <<"junk", k, j>> a byte written by a      *)
(* decode of packet k that then failed.                                    *)
(***************************************************************************)
EXTENDS Integers, Sequences, FiniteSets, TLC

VARIABLES
    cfg,      \* PacketConfig of the stream (Decoder.dec.config)
    samples,  \* Decoder.samples: the packet table
    dec,      \* Decoder fields: sampleIdx, buf (backing array), bufLen, bufOff, eof
    last,     \* the last call on the decoder and what it returned
    hist,     \* history of the calls (what was delivered since the last Seek, ...)
    pk,       \* the PacketDecoder at work on one packet
    open,     \* the source and what NewDecoder made of it
    unpc,     \* a call of UnpcBlock: its input and what the routines made of it
    two,      \* two Decoders on two sources, and each of them on its own
    fn        \* a call of a routine looked at on its own: its input and its result

vars == <<cfg, samples, dec, last, hist, pk, open, unpc, two, fn>>

(***************************************************************************)
(* Bounds of the model.                                                    *)
(***************************************************************************)
MaxPackets == 2     \* longest packet table
MaxRead == 3        \* largest destination buffer handed to Read
Second == 12        \* ticks of time.Duration per second (the program's tick
                    \* is the nanosecond; the model counts a coarser tick)
SeekMargin == 1     \* Seek is tried from -SeekMargin to Duration + SeekMargin
MaxElems == 2       \* most elements laid into a packet
MaxSteps == 2       \* most samples predicted after the warm-up of UnpcBlock
MaxBlock == 3       \* most samples of a block UnpcBlock is called on
MaxBoxes == 3       \* most 8-byte pieces (box headers, 64-bit sizes) of a file that is walked
MaxChain == 5       \* most channel elements of a packet whose channel slots are followed

Min(a, b) == IF a <= b THEN a ELSE b
Max(a, b) == IF a >= b THEN a ELSE b

\* Go's integer division and remainder truncate toward zero.
QuoT(a, b) == IF a >= 0 THEN a \div b ELSE -((-a) \div b)
RemT(a, b) == a - b * QuoT(a, b)

(***************************************************************************)
(* Configuration.                                                          *)
(***************************************************************************)
BytesPerSample(depth) ==
    CASE depth = 16 -> 2
      [] depth \in {20, 24} -> 3
      [] depth = 32 -> 4

Configs ==
    { [frameLength |-> 2, sampleRate |-> sr, numChannels |-> 1, bitDepth |-> 16]
        : sr \in {3, 5} }

BytesPerFrame(c) == c.numChannels * BytesPerSample(c.bitDepth)
FrameBytes(c) == c.frameLength * BytesPerFrame(c)

(***************************************************************************)
(* The packet decoder (PacketDecoder.decodePacketInto and the element      *)
(* decoders), over packets of bytes.                                       *)
(*                                                                         *)
(* A run-time panic of the Go program (index or slice bounds out of range) *)
(* is an outcome of its own: the bit reader carries a flag ok that a       *)
(* faulting access clears, and every operation on a reader whose flag is   *)
(* cleared leaves it as it is.                                             *)
(***************************************************************************)
bitBufferPadding == 4

\* Buf[i], 0-based
At(buf, i) == buf[i + 1]

Zeros(n) == [i \in 1..n |-> 0]

\* BitBuffer.Reset
BitBufferReset(data) ==
    [Buf |-> data \o Zeros(bitBufferPadding), Pos |-> 0, BitIdx |-> 0,
     Size |-> Len(data), ok |-> TRUE]

Fault(b) == [b EXCEPT !.ok = FALSE]

\* b.BitIdx += numBits; b.Pos += int(b.BitIdx >> 3); b.BitIdx &= 7
BitBufferAdvance(b, numBits) ==
    IF ~b.ok THEN b
    ELSE [b EXCEPT !.Pos = @ + (b.BitIdx + numBits) \div 8,
                   !.BitIdx = (b.BitIdx + numBits) % 8]

\* BitBuffer.Read: loads Buf[Pos], Buf[Pos+1], Buf[Pos+2]
BitBufferRead(b, numBits) ==
    IF ~b.ok \/ b.Pos + 2 >= Len(b.Buf) THEN [b |-> Fault(b), v |-> 0]
    ELSE LET returnBits == At(b.Buf, b.Pos) * 65536 + At(b.Buf, b.Pos + 1) * 256
                             + At(b.Buf, b.Pos + 2)
             shifted == (returnBits * 2^b.BitIdx) % 16777216
         IN  [b |-> BitBufferAdvance(b, numBits), v |-> shifted \div 2^(24 - numBits)]

\* BitBuffer.ReadSmall: loads Buf[Pos], Buf[Pos+1]
BitBufferReadSmall(b, numBits) ==
    IF ~b.ok \/ b.Pos + 1 >= Len(b.Buf) THEN [b |-> Fault(b), v |-> 0]
    ELSE LET returnBits == At(b.Buf, b.Pos) * 256 + At(b.Buf, b.Pos + 1)
             shifted == (returnBits * 2^b.BitIdx) % 65536
         IN  [b |-> BitBufferAdvance(b, numBits), v |-> shifted \div 2^(16 - numBits)]

\* BitBuffer.ReadOne: loads Buf[Pos]
BitBufferReadOne(b) ==
    IF ~b.ok \/ b.Pos >= Len(b.Buf) THEN [b |-> Fault(b), v |-> 0]
    ELSE [b |-> BitBufferAdvance(b, 1),
          v |-> (At(b.Buf, b.Pos) \div 2^(7 - b.BitIdx)) % 2]

BitBufferByteAlignBug(b) == b

\* BitBuffer.ByteAlign
BitBufferByteAlign(b) == IF b.BitIdx = 0 THEN b ELSE BitBufferAdvance(b, 8 - b.BitIdx)

BitBufferPastEnd(b) == b.Pos >= b.Size

\* Position of the cursor in bits from the start of the packet.
Cursor(b) == b.Pos * 8 + b.BitIdx

\* The bit at offset bitPos of a byte slice (0 = top bit of input[0]); the
\* caller has checked that the byte is inside the slice.
BitOf(input, bitPos) == (At(input, bitPos \div 8) \div 2^(7 - (bitPos % 8))) % 2

\* The numBits bits from bitPos on as a number, the bits from limit on read as 0.
RECURSIVE BitsFrom(_, _, _, _)
BitsFrom(input, bitPos, numBits, limit) ==
    IF numBits = 0 THEN 0
    ELSE 2 * BitsFrom(input, bitPos, numBits - 1, limit)
           + (IF bitPos + numBits - 1 < limit THEN BitOf(input, bitPos + numBits - 1) ELSE 0)

\* How many of the bits from bitPos on are 1 before the first 0, the bits
\* from limit on read as 0.
RECURSIVE OnesFrom(_, _, _)
OnesFrom(input, bitPos, limit) ==
    IF bitPos < limit /\ BitOf(input, bitPos) = 1
    THEN 1 + OnesFrom(input, bitPos + 1, limit) ELSE 0

(***************************************************************************)
(* The adaptive Golomb-Rice entropy decoder.  A 32-bit word loaded at byte *)
(* bitPos >> 3 and shifted left by bitPos & 7 is read bit by bit: its bits *)
(* are the stream's bits from bitPos up to the end of the four loaded      *)
(* bytes, followed by zeros.  Offsets are bits from the start of the       *)
(* buffer: base is bitBuf.Pos, the first byte of the slice input.          *)
(***************************************************************************)
qbShift == 9
quantBits == 2^qbShift
mmulShift == 2
mdenShift == qbShift - mmulShift - 1
moff == 2^(mdenShift - 2)
bitoff == 24
maxPrefix16 == 9
maxPrefix32 == 9
maxDatatype16 == 16
nMaxMeanClamp == 65535
nMeanClampVal == 65535
maxZeroRun == 65535

RECURSIVE BitLen(_)
BitLen(n) == IF n <= 0 THEN 0 ELSE 1 + BitLen(n \div 2)

\* bits.LeadingZeros32, of a value below 2^31
lead(m) == 32 - BitLen(m)

lg3a(x) == 31 - lead(x + 3)

\* read32bit(input, offset) stays inside input = buf[base:]
read32bitOK(buf, base, offset) == base + offset + 4 <= Len(buf)

\* The end of the word loaded for the bit at absolute position abs.
WordEnd(abs) == (abs \div 8) * 8 + 32

\* getStreamBits(input, bitOffset, numBits): the load of four bytes, and of a
\* fifth when the field crosses into it.
getStreamBitsOK(buf, base, bitOffset, numBits) ==
    /\ read32bitOK(buf, base, bitOffset \div 8)
    /\ (numBits + (bitOffset % 8) > 32) => base + bitOffset \div 8 + 4 < Len(buf)

getStreamBits(buf, base, bitOffset, numBits) ==
    BitsFrom(buf, base * 8 + bitOffset, numBits, Len(buf) * 8)

\* dynGet(input, bitPos, golombM, golombK): [ok, result, bitPos]
dynGet(buf, base, bitPos, golombM, golombK) ==
    LET Code(pre, val) ==
            IF val < 2
            THEN [ok |-> TRUE, result |-> pre * golombM,
                  bitPos |-> bitPos + pre + 1 + golombK - 1]
            ELSE [ok |-> TRUE, result |-> pre * golombM + val - 1,
                  bitPos |-> bitPos + pre + 1 + golombK]
        Prefix(abs, pre) ==
            IF pre >= maxPrefix16
            THEN [ok |-> TRUE,
                  result |-> BitsFrom(buf, abs + maxPrefix16, maxDatatype16, WordEnd(abs)),
                  bitPos |-> bitPos + maxPrefix16 + maxDatatype16]
            ELSE Code(pre, BitsFrom(buf, abs + pre + 1, golombK, WordEnd(abs)))
        Word(abs) == Prefix(abs, OnesFrom(buf, abs, WordEnd(abs)))
    IN  IF ~read32bitOK(buf, base, bitPos \div 8)
        THEN [ok |-> FALSE, result |-> 0, bitPos |-> bitPos]
        ELSE Word(base * 8 + bitPos)

\* One residual of DynDecomp (the inlined dynGet32Bit): [ok, residual, bitPos]
dynGet32Bit(buf, base, bitPos, m, k, maxSize) ==
    LET Code(pre, v) ==
            IF v >= 2
            THEN [ok |-> TRUE, residual |-> pre * m + v - 1,
                  bitPos |-> bitPos + pre + 1 + k]
            ELSE [ok |-> TRUE, residual |-> pre * m,
                  bitPos |-> bitPos + pre + 1 + k - 1]
        Escape(ok) ==
            [ok |-> ok,
             residual |-> IF ok THEN getStreamBits(buf, base, bitPos + maxPrefix32, maxSize)
                          ELSE 0,
             bitPos |-> bitPos + maxPrefix32 + maxSize]
        Prefix(abs, pre) ==
            IF pre >= maxPrefix32
            THEN Escape(getStreamBitsOK(buf, base, bitPos + maxPrefix32, maxSize))
            ELSE IF k = 1
            THEN [ok |-> TRUE, residual |-> pre, bitPos |-> bitPos + pre + 1]
            ELSE Code(pre, BitsFrom(buf, abs + pre + 1, k, WordEnd(abs)))
        Word(abs) == Prefix(abs, OnesFrom(buf, abs, WordEnd(abs)))
    IN  IF ~read32bitOK(buf, base, bitPos \div 8)
        THEN [ok |-> FALSE, residual |-> 0, bitPos |-> bitPos]
        ELSE Word(base * 8 + bitPos)

\* Sign from the least significant bit.
Del(ndecode) == IF (ndecode % 2) = 1 THEN 0 - ((ndecode + 1) \div 2) ELSE (ndecode + 1) \div 2

RunFitsBug(count, run, numSamples) == TRUE

\* count + int(residual) > numSamples is ErrSampleOverrun
RunFits(count, run, numSamples) == count + run <= numSamples

\* The loop of DynDecomp from the state st = [bitPos, meanAccum, zmode,
\* coefs]; count is Len(st.coefs).  err is "nil", an error or "panic".
\* turns counts the turns of the loop begun so far.
\* One turn reads a residual g with parameter k, appends its value (coefs1),
\* updates the mean (mean1) and, when the mean is small, reads a run of
\* zeros z with parameter k32.
RECURSIVE DynLoop(_, _, _, _, _, _, _)
DynLoop(params, buf, base, maxPos, numSamples, maxSize, st) ==
    LET Turn(bitPos, meanAccum, zmode, coefs) ==
            DynLoop(params, buf, base, maxPos, numSamples, maxSize,
                    [bitPos |-> bitPos, meanAccum |-> meanAccum, zmode |-> zmode,
                     coefs |-> coefs, err |-> "nil", turns |-> st.turns + 1])
        ZeroRun(coefs1, z) ==
            IF ~z.ok THEN [st EXCEPT !.err = "panic", !.turns = @ + 1]
            ELSE IF ~RunFits(Len(coefs1), z.result, numSamples)
            THEN [st EXCEPT !.err = "SampleOverrun", !.coefs = coefs1, !.bitPos = z.bitPos,
                            !.turns = @ + 1]
            ELSE Turn(z.bitPos, 0, IF z.result >= maxZeroRun THEN 0 ELSE 1,
                      coefs1 \o Zeros(z.result))
        ZeroRunParam(g, coefs1, k32) ==
            ZeroRun(coefs1, dynGet(buf, base, g.bitPos, 2^Min(k32, params.KB) - 1, k32))
        Mean(g, coefs1, mean1) ==
            IF mean1 * 2^mmulShift < quantBits /\ Len(coefs1) < numSamples
            THEN ZeroRunParam(g, coefs1,
                     Max(lead(mean1) - bitoff + (mean1 + moff) \div 2^mdenShift, 0))
            ELSE Turn(g.bitPos, mean1, 0, coefs1)
        Residual(g) ==
            IF ~g.ok THEN [st EXCEPT !.err = "panic", !.turns = @ + 1]
            ELSE Mean(g, Append(st.coefs, Del(g.residual + st.zmode)),
                      IF g.residual > nMaxMeanClamp THEN nMeanClampVal
                      ELSE params.PB * (g.residual + st.zmode) + st.meanAccum
                             - ((params.PB * st.meanAccum) \div quantBits))
        Param(k) == Residual(dynGet32Bit(buf, base, st.bitPos, 2^k - 1, k, maxSize))
    IN  IF Len(st.coefs) >= numSamples THEN [st EXCEPT !.err = "nil"]
        ELSE IF st.bitPos >= maxPos
        THEN [st EXCEPT !.err = "BitstreamOverrun", !.turns = @ + 1]
        ELSE Param(Min(lg3a(st.meanAccum \div quantBits), params.KB))

\* uint32(bitBuf.Size - bitBuf.Pos) * 8 with Pos past Size wraps to a value
\* no bit position of the model reaches.
WrappedMaxPos == 1073741824

\* DynDecomp(params, bitBuf, predCoefs, numSamples, maxSize), predCoefs of
\* capacity scratch: [b, err, coefs]
DynDecomp(params, b, scratch, numSamples, maxSize) ==
    LET Result(r) ==
            IF r.err = "panic"
            THEN [b |-> Fault(b), err |-> "panic", coefs |-> r.coefs, turns |-> r.turns]
            ELSE IF r.err # "nil"
            THEN [b |-> b, err |-> r.err, coefs |-> r.coefs, turns |-> r.turns]
            ELSE [b |-> BitBufferAdvance(b, r.bitPos - b.BitIdx), err |-> "nil",
                  coefs |-> r.coefs, turns |-> r.turns]
    IN  IF ~b.ok \/ b.Pos > Len(b.Buf) \/ numSamples > scratch
        THEN [b |-> Fault(b), err |-> "panic", coefs |-> << >>, turns |-> 0]
        ELSE Result(DynLoop(params, b.Buf, b.Pos,
                            IF b.Size >= b.Pos THEN (b.Size - b.Pos) * 8 ELSE WrappedMaxPos,
                            numSamples, maxSize,
                            [bitPos |-> b.BitIdx, meanAccum |-> params.MB0, zmode |-> 0,
                             coefs |-> << >>, err |-> "nil", turns |-> 0]))

\* SetAGParams
SetAGParams(meanBase, partBound, kBase, maxrun) ==
    [MB |-> meanBase, MB0 |-> meanBase, PB |-> partBound, KB |-> kBase,
     WB |-> 2^kBase - 1, QB |-> quantBits - partBound, MaxRun |-> maxrun]

(***************************************************************************)
(* The element decoders.  Sample values are not modelled: the output       *)
(* buffer is a sequence of sample slots (slot i * numChan + ch for sample  *)
(* i of channel ch), each holding 0 or the mark of the element that wrote  *)
(* it.  The scratch buffers mixBufferU, mixBufferV and predictor hold      *)
(* frameLength values, shiftBuffer twice that.                             *)
(* An element decoder returns [b, err, numSamples, output]; err is "nil",  *)
(* the error returned, or "panic".                                         *)
(***************************************************************************)
elemSCE == 0
elemCPE == 1
elemCCE == 2
elemLFE == 3
elemDSE == 4
elemPCE == 5
elemFIL == 6
elemEND == 7

UnusedHeaderBits == 12
NumActiveDelta == 31

channelLayoutOffsets ==
    << <<0>>, <<0, 1>>, <<2, 0, 1>>, <<2, 0, 1, 3>>, <<2, 0, 1, 3, 4>>,
       <<2, 0, 1, 4, 5, 3>>, <<2, 0, 1, 4, 5, 6, 3>>, <<2, 6, 7, 0, 1, 4, 5, 3>> >>

ElemResult(b, err, numSamples, output) ==
    [b |-> b, err |-> err, numSamples |-> numSamples, output |-> output]

\* numSamples = bits.Read(16) << 16 | bits.Read(16).  A count of 2^26 or more
\* is held as 2^26: every count above frameLength takes the same path.
SampleCount(hi, lo) == IF hi >= 1024 THEN 67108864 ELSE hi * 65536 + lo

\* one bits.Read of each width of widths, from the i-th on
RECURSIVE ReadWidths(_, _, _)
ReadWidths(b, widths, i) ==
    IF i > Len(widths) THEN b ELSE ReadWidths(BitBufferRead(b, widths[i]).b, widths, i + 1)

\* count times over, one bits.Read of each width of widths
RECURSIVE ReadSamples(_, _, _)
ReadSamples(b, count, widths) ==
    IF count <= 0 \/ ~b.ok THEN b
    ELSE ReadSamples(ReadWidths(b, widths, 1), count - 1, widths)

\* The bit widths read per sample by decodeSCEEscape / decodeCPEEscape.
EscapeWidths(chanBits, channels) ==
    LET one == IF chanBits <= 16 THEN <<chanBits>> ELSE <<16, chanBits - 16>>
    IN  IF channels = 1 THEN one ELSE one \o one

\* UnpcBlock indexes pc1 and out, of frameLength values, up to numActive in
\* its warm-up phase.
UnpcBlockOK(c, numActive) ==
    numActive = 0 \/ numActive = NumActiveDelta \/ numActive < c.frameLength

\* WriteMono16/20/24/32: one slot per sample, stride numChan
WriteMono(output, chanIdx, numChan, numSamples, mark) ==
    [s \in 1..Len(output) |->
        IF (s - 1) % numChan = chanIdx /\ (s - 1) \div numChan < numSamples
        THEN mark ELSE output[s]]

WriteMonoOK(output, chanIdx, numChan, numSamples) ==
    numSamples = 0 \/ (numSamples - 1) * numChan + chanIdx < Len(output)

\* WriteStereo16/20/24/32: two adjacent slots per sample, stride numChan
WriteStereo(output, chanIdx, numChan, numSamples, mark) ==
    [s \in 1..Len(output) |->
        IF \E i \in 0..(numSamples - 1) :
              s - 1 \in {i * numChan + chanIdx, i * numChan + chanIdx + 1}
        THEN mark ELSE output[s]]

WriteStereoOK(output, chanIdx, numChan, numSamples) ==
    numSamples = 0 \/ (numSamples - 1) * numChan + chanIdx + 1 < Len(output)

\* The predictor parameters of one channel: [b, mode, pbFactor, num]
ReadPredictor(b) ==
    LET Coefs(h1, h2) ==
            [b |-> ReadSamples(h2.b, h2.v % 32, <<16>>), mode |-> h1.v \div 16,
             pbFactor |-> h2.v \div 32, num |-> h2.v % 32]
        Count(h1) == Coefs(h1, BitBufferRead(h1.b, 8))
    IN  Count(BitBufferRead(b, 8))

\* The shift buffer, count values of bytesShifted bytes, read at shiftBits.
ReadShiftBuffer(shiftBits, bytesShifted, count) ==
    IF bytesShifted # 0 THEN ReadSamples(shiftBits, count, <<bytesShifted * 8>>)
    ELSE shiftBits

\* [b, err]: mixBits and mixRes, the predictor u, then the residuals dyn
\* read after the shift buffer sb.
decodeSCECompressed(c, b, chanBits, bytesShifted, numSamples) ==
    LET Residuals(u, sb, dyn) ==
            IF dyn.err = "panic" THEN [b |-> Fault(b), err |-> "panic"]
            ELSE IF dyn.err # "nil" THEN [b |-> dyn.b, err |-> dyn.err]
            ELSE IF ~UnpcBlockOK(c, u.num) \/ ~sb.ok THEN [b |-> Fault(b), err |-> "panic"]
            ELSE [b |-> dyn.b, err |-> "nil"]
        Predictor(u) ==
            Residuals(u, ReadShiftBuffer(u.b, bytesShifted, numSamples),
                      DynDecomp(SetAGParams(c.mb, (c.pb * u.pbFactor) \div 4, c.kb, c.maxRun),
                                IF bytesShifted # 0
                                THEN BitBufferAdvance(u.b, bytesShifted * 8 * numSamples)
                                ELSE u.b,
                                c.frameLength, numSamples, chanBits))
    IN  Predictor(ReadPredictor(BitBufferRead(BitBufferRead(b, 8).b, 8).b))

\* [b, err]
decodeSCEEscape(c, b, chanBits, numSamples) ==
    IF numSamples > c.frameLength THEN [b |-> Fault(b), err |-> "panic"]
    ELSE LET b1 == ReadSamples(b, numSamples, EscapeWidths(chanBits, 1))
         IN  [b |-> b1, err |-> IF b1.ok THEN "nil" ELSE "panic"]

CheckUnusedHeaderBug(unusedHeader) == "nil"

\* if unusedHeader != 0 { return 0, alacint.ErrInvalidHeader }
CheckUnusedHeader(unusedHeader) == IF unusedHeader # 0 THEN "InvalidHeader" ELSE "nil"

\* if bytesShifted == 3 { return 0, alacint.ErrInvalidShift }
CheckShift(bytesShifted) == IF bytesShifted = 3 THEN "InvalidShift" ELSE "nil"

decodeSCE(c, b, output, chanIdx, numChan, numSamples0, mark) ==
    LET Write(numSamples, body) ==
            IF body.err # "nil" THEN ElemResult(body.b, body.err, 0, output)
            ELSE IF ~WriteMonoOK(output, chanIdx, numChan, numSamples)
            THEN ElemResult(Fault(body.b), "panic", 0, output)
            ELSE ElemResult(body.b, "nil", numSamples,
                            WriteMono(output, chanIdx, numChan, numSamples, mark))
        Samples(bytesShifted, escapeFlag, numSamples, b1) ==
            IF ~b1.ok THEN ElemResult(b1, "panic", 0, output)
            ELSE Write(numSamples,
                       IF escapeFlag = 0
                       THEN decodeSCECompressed(c, b1, c.bitDepth - bytesShifted * 8,
                                                bytesShifted, numSamples)
                       ELSE decodeSCEEscape(c, b1, c.bitDepth - bytesShifted * 8,
                                            numSamples))
        Count(hdr, hi, lo) ==
            Samples((hdr.v \div 2) % 4, hdr.v % 2,
                    IF hdr.v \div 8 # 0 THEN SampleCount(hi.v, lo.v) ELSE numSamples0,
                    IF hdr.v \div 8 # 0 THEN lo.b ELSE hdr.b)
        CountHigh(hdr, hi) == Count(hdr, hi, BitBufferRead(hi.b, 16))
        Header(hdr) ==
            IF ~hdr.b.ok THEN ElemResult(hdr.b, "panic", 0, output)
            ELSE IF CheckShift((hdr.v \div 2) % 4) # "nil"
            THEN ElemResult(hdr.b, CheckShift((hdr.v \div 2) % 4), 0, output)
            ELSE CountHigh(hdr, BitBufferRead(hdr.b, 16))
        Reserved(unused) ==
            IF ~unused.b.ok THEN ElemResult(unused.b, "panic", 0, output)
            ELSE IF CheckUnusedHeader(unused.v) # "nil"
            THEN ElemResult(unused.b, CheckUnusedHeader(unused.v), 0, output)
            ELSE Header(BitBufferRead(unused.b, 4))
    IN  Reserved(BitBufferRead(BitBufferReadSmall(b, 4).b, UnusedHeaderBits))

\* [b, err]: mixBits and mixRes, the predictors u and v, then the residuals
\* dynU and dynV read after the shift buffer sb.
decodeCPECompressed(c, b, chanBits, bytesShifted, numSamples) ==
    LET Right(u, v, sb, dynV) ==
            IF dynV.err = "panic" THEN [b |-> Fault(b), err |-> "panic"]
            ELSE IF dynV.err # "nil" THEN [b |-> dynV.b, err |-> dynV.err]
            ELSE IF ~UnpcBlockOK(c, v.num) \/ ~sb.ok THEN [b |-> Fault(b), err |-> "panic"]
            ELSE [b |-> dynV.b, err |-> "nil"]
        Left(u, v, sb, dynU) ==
            IF dynU.err = "panic" THEN [b |-> Fault(b), err |-> "panic"]
            ELSE IF dynU.err # "nil" THEN [b |-> dynU.b, err |-> dynU.err]
            ELSE IF ~UnpcBlockOK(c, u.num) THEN [b |-> Fault(b), err |-> "panic"]
            ELSE Right(u, v, sb,
                       DynDecomp(SetAGParams(c.mb, (c.pb * v.pbFactor) \div 4, c.kb, c.maxRun),
                                 dynU.b, c.frameLength, numSamples, chanBits))
        Predictors(u, v) ==
            Left(u, v, ReadShiftBuffer(v.b, bytesShifted, 2 * numSamples),
                 DynDecomp(SetAGParams(c.mb, (c.pb * u.pbFactor) \div 4, c.kb, c.maxRun),
                           IF bytesShifted # 0
                           THEN BitBufferAdvance(v.b, bytesShifted * 8 * 2 * numSamples)
                           ELSE v.b,
                           c.frameLength, numSamples, chanBits))
        PredictorU(u) == Predictors(u, ReadPredictor(u.b))
    IN  PredictorU(ReadPredictor(BitBufferRead(BitBufferRead(b, 8).b, 8).b))

\* [b, err]
decodeCPEEscape(c, b, chanBits, numSamples) ==
    IF numSamples > c.frameLength THEN [b |-> Fault(b), err |-> "panic"]
    ELSE LET b1 == ReadSamples(b, numSamples, EscapeWidths(chanBits, 2))
         IN  [b |-> b1, err |-> IF b1.ok THEN "nil" ELSE "panic"]

decodeCPE(c, b, output, chanIdx, numChan, numSamples0, mark) ==
    LET Write(numSamples, body) ==
            IF body.err # "nil" THEN ElemResult(body.b, body.err, 0, output)
            ELSE IF ~WriteStereoOK(output, chanIdx, numChan, numSamples)
            THEN ElemResult(Fault(body.b), "panic", 0, output)
            ELSE ElemResult(body.b, "nil", numSamples,
                            WriteStereo(output, chanIdx, numChan, numSamples, mark))
        Samples(bytesShifted, escapeFlag, numSamples, b1) ==
            IF ~b1.ok THEN ElemResult(b1, "panic", 0, output)
            ELSE Write(numSamples,
                       IF escapeFlag = 0
                       THEN decodeCPECompressed(c, b1, c.bitDepth - bytesShifted * 8 + 1,
                                                bytesShifted, numSamples)
                       ELSE decodeCPEEscape(c, b1, c.bitDepth, numSamples))
        Count(hdr, hi, lo) ==
            Samples((hdr.v \div 2) % 4, hdr.v % 2,
                    IF hdr.v \div 8 # 0 THEN SampleCount(hi.v, lo.v) ELSE numSamples0,
                    IF hdr.v \div 8 # 0 THEN lo.b ELSE hdr.b)
        CountHigh(hdr, hi) == Count(hdr, hi, BitBufferRead(hi.b, 16))
        Header(hdr) ==
            IF ~hdr.b.ok THEN ElemResult(hdr.b, "panic", 0, output)
            ELSE IF CheckShift((hdr.v \div 2) % 4) # "nil"
            THEN ElemResult(hdr.b, CheckShift((hdr.v \div 2) % 4), 0, output)
            ELSE CountHigh(hdr, BitBufferRead(hdr.b, 16))
        Reserved(unused) ==
            IF ~unused.b.ok THEN ElemResult(unused.b, "panic", 0, output)
            ELSE IF CheckUnusedHeader(unused.v) # "nil"
            THEN ElemResult(unused.b, CheckUnusedHeader(unused.v), 0, output)
            ELSE Header(BitBufferRead(unused.b, 4))
    IN  Reserved(BitBufferRead(BitBufferReadSmall(b, 4).b, UnusedHeaderBits))

\* skipFIL: [b, err]
skipFIL(b) ==
    LET c4 == BitBufferReadSmall(b, 4)
        c8 == BitBufferReadSmall(c4.b, 8)
        count == IF c4.v = 15 THEN c4.v + c8.v - 1 ELSE c4.v
        b1 == BitBufferAdvance(IF c4.v = 15 THEN c8.b ELSE c4.b, count * 8)
    IN  IF ~b1.ok THEN [b |-> b1, err |-> "panic"]
        ELSE IF BitBufferPastEnd(b1) THEN [b |-> b1, err |-> "BitstreamOverrun"]
        ELSE [b |-> b1, err |-> "nil"]

\* skipDSE: [b, err]
skipDSE(b) ==
    LET inst == BitBufferReadSmall(b, 4)
        dataByteAlignFlag == BitBufferReadOne(inst.b)
        c1 == BitBufferReadSmall(dataByteAlignFlag.b, 8)
        c2 == BitBufferReadSmall(c1.b, 8)
        count == IF c1.v = 255 THEN c1.v + c2.v ELSE c1.v
        b1 == IF c1.v = 255 THEN c2.b ELSE c1.b
        b2 == IF dataByteAlignFlag.v # 0 THEN BitBufferByteAlign(b1) ELSE b1
        b3 == BitBufferAdvance(b2, count * 8)
    IN  IF ~b3.ok THEN [b |-> b3, err |-> "panic"]
        ELSE IF BitBufferPastEnd(b3) THEN [b |-> b3, err |-> "BitstreamOverrun"]
        ELSE [b |-> b3, err |-> "nil"]

(***************************************************************************)
(* Packets.  A packet is built from elements laid end to end, packed into  *)
(* bytes, and cut after any number of its bytes.  With the bytes go the    *)
(* elements' kinds and the bit where each ends, so that a property can     *)
(* tell the element the decoder is in from the one the packet's author     *)
(* wrote.                                                                  *)
(***************************************************************************)
RECURSIVE Bits(_, _)
Bits(v, n) == IF n = 0 THEN << >> ELSE Bits(v \div 2, n - 1) \o <<v % 2>>

RECURSIVE ByteOf(_, _, _)
ByteOf(bits, from, i) ==
    IF i = 8 THEN 0
    ELSE (IF from + i <= Len(bits) THEN bits[from + i] * 2^(7 - i) ELSE 0)
           + ByteOf(bits, from, i + 1)

Pack(bits) == [j \in 1..((Len(bits) + 7) \div 8) |-> ByteOf(bits, (j - 1) * 8 + 1, 0)]

\* tag, instance tag 0, the 12 unused bits, partial_frame, bytes_shifted, escape
ElemHeader(tag, unused, partial, shift, escape) ==
    Bits(tag, 3) \o Bits(0, 4) \o Bits(unused, UnusedHeaderBits)
      \o Bits(partial * 8 + shift * 2 + escape, 4)

\* mode 0, denShift 0, pbFactor 4, no coefficients
PredictorBits == Bits(0, 8) \o Bits(4 * 32, 8)

\* mixBits 0, mixRes 0
MixBits == Bits(0, 8) \o Bits(0, 8)

Sample16 == Bits(42435, 16)

\* Two residuals, 3 and 1, in Golomb-Rice code; and a residual 0 followed
\* by a zero run of length 1.
ResidualBits == <<1, 1, 1, 0, 1, 0>>
ZeroRunBits == <<0, 0, 0, 0, 1, 0>>

\* the count of a fill element longer than the padding
LongFill == 14

Element(kind, bits, valid) == [kind |-> kind, bits |-> bits, valid |-> valid]

\* The elements packets are made of, for frames of two samples of 16 bits.
Elements ==
    { Element("SCE", ElemHeader(elemSCE, 0, 0, 0, 1) \o Sample16 \o Sample16, TRUE),
      Element("LFE", ElemHeader(elemLFE, 0, 1, 0, 1) \o Bits(0, 16) \o Bits(1, 16) \o Sample16, TRUE),
      Element("SCE", ElemHeader(elemSCE, 0, 1, 0, 1) \o Bits(0, 16) \o Bits(3, 16)
                        \o Sample16 \o Sample16 \o Sample16, FALSE),
      Element("SCE", ElemHeader(elemSCE, 0, 0, 0, 0) \o MixBits \o PredictorBits \o ResidualBits, TRUE),
      Element("SCE", ElemHeader(elemSCE, 0, 0, 0, 0) \o MixBits \o PredictorBits \o ZeroRunBits, TRUE),
      Element("SCE", ElemHeader(elemSCE, 0, 0, 1, 0) \o MixBits \o PredictorBits
                        \o Bits(165, 8) \o Bits(90, 8) \o ResidualBits, TRUE),
      Element("SCE", ElemHeader(elemSCE, 1, 0, 0, 1) \o Sample16 \o Sample16, FALSE),
      Element("LFE", ElemHeader(elemLFE, 0, 0, 3, 1) \o Sample16 \o Sample16, FALSE),
      Element("CPE", ElemHeader(elemCPE, 0, 0, 0, 1)
                        \o Sample16 \o Sample16 \o Sample16 \o Sample16, TRUE),
      Element("CPE", ElemHeader(elemCPE, 0, 0, 0, 0) \o MixBits \o PredictorBits \o PredictorBits
                        \o ResidualBits \o ResidualBits, TRUE),
      Element("CPE", ElemHeader(elemCPE, 2048, 0, 0, 1)
                        \o Sample16 \o Sample16 \o Sample16 \o Sample16, FALSE),
      Element("CPE", ElemHeader(elemCPE, 0, 0, 3, 0) \o MixBits \o PredictorBits \o PredictorBits
                        \o ResidualBits \o ResidualBits, FALSE),
      Element("DSE", Bits(elemDSE, 3) \o Bits(0, 4) \o <<1>> \o Bits(1, 8) \o Bits(255, 8), TRUE),
      Element("FIL", Bits(elemFIL, 3) \o Bits(1, 4) \o Bits(255, 8), TRUE),
      Element("FIL", Bits(elemFIL, 3) \o Bits(LongFill, 4) \o Zeros(8 * LongFill), TRUE),
      Element("END", Bits(elemEND, 3), TRUE),
      Element("END", Bits(elemEND, 3) \o Bits(31, 5) \o Bits(255, 8), TRUE),
      Element("CCE", Bits(elemCCE, 3), TRUE),
      Element("PCE", Bits(elemPCE, 3), TRUE) }

\* The dispatcher goes on after an element only if it is well formed and is
\* not END, CCE or PCE: nothing is laid after an element it stops at.
Continues(e) == e.valid /\ e.kind \notin {"END", "CCE", "PCE"}

ElemSeqs ==
    UNION { { es \in [1..n -> Elements] : \A i \in 1..(n - 1) : Continues(es[i]) }
              : n \in 1..MaxElems }

RECURSIVE AllBits(_, _)
AllBits(es, i) == IF i > Len(es) THEN << >> ELSE es[i].bits \o AllBits(es, i + 1)

RECURSIVE EndBit(_, _)
EndBit(es, i) == IF i = 0 THEN 0 ELSE EndBit(es, i - 1) + Len(es[i].bits)

\* The packets of the elements es: their bytes cut after any number of bytes.
PacketsOf(es) ==
    LET bytes == Pack(AllBits(es, 1))
        tmpl == [i \in 1..Len(es) |->
                   [kind |-> es[i].kind, valid |-> es[i].valid,
                    start |-> EndBit(es, i - 1), end |-> EndBit(es, i)]]
    IN  { [bytes |-> SubSeq(bytes, 1, cut), tmpl |-> tmpl] : cut \in 0..Len(bytes) }

Packets == UNION { PacketsOf(es) : es \in ElemSeqs }

PktConfigs ==
    { [frameLength |-> 2, sampleRate |-> 3, numChannels |-> nc, bitDepth |-> 16,
       pb |-> 40, mb |-> 10, kb |-> 14, maxRun |-> 255] : nc \in {1, 2} }

\* The packet decoder between two calls of DecodePacket.
PkIdle ==
    [pc |-> "idle", b |-> BitBufferReset(<< >>), chanIdx |-> 0, numSamples |-> 0,
     output |-> << >>, n |-> 0, err |-> {}, pcm |-> << >>, panicked |-> FALSE,
     tag |-> -1, elemStart |-> -1, reserved |-> -1, shift |-> -1, elems |-> 0,
     tmpl |-> << >>]

(***************************************************************************)
(* The linear predictor (UnpcBlock): the routines unrolled for numActive 4 *)
(* and 8 and the general one, as functions of the residuals pc1, the       *)
(* warmed-up output, the coefficients and the shifts.  int32 arithmetic    *)
(* wraps at 32 bits and int16 at 16.                                       *)
(***************************************************************************)
\* int16(v)
Int16(v) == ((v + 32768) % 65536) - 32768

\* a + b in int32
Add32(a, b) ==
    IF a >= 0 /\ b >= 0 /\ (a - 1073741824) + (b - 1073741824) >= 0
    THEN ((a - 1073741824) + (b - 1073741824)) - 1073741824 - 1073741824
    ELSE IF a < 0 /\ b < 0 /\ (a + 1073741824) + (b + 1073741824) < 0
    THEN ((a + 1073741824) + (b + 1073741824)) + 1073741824 + 1073741824
    ELSE a + b

\* -a in int32
Neg32(a) == IF a < -2147483647 THEN a ELSE -a

\* a - b in int32
Sub32(a, b) == Add32(a, Neg32(b))

\* byte i of the two's complement of a
Byte32(a, i) == (a \div 256^i) % 256

RECURSIVE Limb32(_, _, _, _)
\* the sum of the products of the bytes i of a and n - i of b, i from 0 to j
Limb32(a, b, n, j) ==
    IF j < 0 THEN 0
    ELSE Byte32(a, j) * Byte32(b, n - j) + Limb32(a, b, n, j - 1)

\* a * b in int32: the low 24 bits and the top byte of the product
Mul32(a, b) ==
    LET Top(byte) == IF byte >= 128 THEN byte - 256 ELSE byte
        Signed(low, high) ==
            (low % 16777216) + 16777216 * Top((high + low \div 16777216) % 256)
    IN  Signed(Limb32(a, b, 0, 0) + 256 * Limb32(a, b, 1, 1)
                 + 65536 * (Limb32(a, b, 2, 2) % 256),
               Limb32(a, b, 3, 3) + Limb32(a, b, 2, 2) \div 256)

\* v >> n on int32, n < 31
Shr32(v, n) == v \div 2^n

\* (del << chanShift) >> chanShift
SignExtend(del, chanShift) == Shr32(Mul32(del, 2^chanShift), chanShift)

signOfInt(val) == IF val > 0 THEN 1 ELSE IF val < 0 THEN -1 ELSE 0

\* out[0] = pc1[0], then the warm-up phase of UnpcBlock: out[idx] for idx in
\* 1..numActive
RECURSIVE WarmUp(_, _, _, _)
WarmUp(pc1, out, idx, chanShift) ==
    IF idx = 0 THEN [out EXCEPT ![1] = At(pc1, 0)]
    ELSE LET Warm(o) ==
                 [o EXCEPT ![idx + 1] =
                     SignExtend(Add32(At(pc1, idx), At(o, idx - 1)), chanShift)]
         IN  Warm(WarmUp(pc1, out, idx - 1, chanShift))

\* out and coefs as a routine leaves them when it returns
PredictorResult(out, coefs) == [out |-> out, coefs |-> coefs, err |-> "nil"]

\* out and coefs as an index out of range leaves them
PredictorPanic(out, coefs) == [out |-> out, coefs |-> coefs, err |-> "panic"]

DeltaLoopBug(pc1, out, num, idx, chanShift) ==
    [i \in 1..Len(out) |-> IF i <= num THEN pc1[i] ELSE out[i]]

RECURSIVE DeltaLoop(_, _, _, _, _)
\* for idx := 1; idx < num; idx++ of the delta mode: prev is out[idx-1]
DeltaLoop(pc1, out, num, idx, chanShift) ==
    IF idx >= num THEN out
    ELSE DeltaLoop(pc1,
                   [out EXCEPT ![idx + 1] =
                       SignExtend(Add32(At(pc1, idx), At(out, idx - 1)), chanShift)],
                   num, idx + 1, chanShift)

RECURSIVE UnrolledSum(_, _, _, _, _, _)
\* denHalf - coef0*diff0 - ... - coef(n-1)*diff(n-1), diffk = top - out[idx-1-k]
UnrolledSum(denHalf, coefs, out, idx, lim, n) ==
    IF n = 0 THEN denHalf
    ELSE Sub32(UnrolledSum(denHalf, coefs, out, idx, lim, n - 1),
               Mul32(At(coefs, n - 1), Sub32(At(out, idx - lim), At(out, idx - n))))

RECURSIVE UnrolledAdapt(_, _, _, _, _, _, _, _)
\* The unrolled adaptation from coefficient k down: the coefficients are
\* int32 locals, stepped by int32(int16(sgn)).
UnrolledAdapt(coefs, out, idx, lim, denShift, sign, del0, k) ==
    LET Stop(d0) == (sign > 0 /\ d0 <= 0) \/ (sign < 0 /\ d0 >= 0)
        Go(cs, d0) ==
            IF Stop(d0) THEN cs
            ELSE UnrolledAdapt(cs, out, idx, lim, denShift, sign, d0, k - 1)
        Turn(diff, sgn) ==
            Go([coefs EXCEPT ![k + 1] = Sub32(@, Int16(sgn))],
               Sub32(del0, Mul32(lim - 1 - k, Shr32(Mul32(sgn, diff), denShift))))
        Last(diff) ==
            IF sign > 0 THEN [coefs EXCEPT ![1] = Sub32(@, Int16(signOfInt(diff)))]
            ELSE [coefs EXCEPT ![1] = Add32(@, Int16(signOfInt(diff)))]
        Diff(diff) ==
            IF k = 0 THEN Last(diff)
            ELSE Turn(diff, IF sign > 0 THEN signOfInt(diff) ELSE -signOfInt(diff))
    IN  Diff(Sub32(At(out, idx - lim), At(out, idx - 1 - k)))

RECURSIVE UnrolledLoop(_, _, _, _, _, _, _, _, _)
\* for idx := lim; idx < num; idx++ of unpcBlock4 and unpcBlock8, then the
\* coefficients are stored as int16
UnrolledLoop(pc1, out, num, coefs, lim, idx, chanShift, denShift, denHalf) ==
    IF idx >= num
    THEN PredictorResult(out, [k \in 1..Len(coefs) |-> Int16(coefs[k])])
    ELSE LET Store(del, cs) ==
                 UnrolledLoop(pc1, [out EXCEPT ![idx + 1] = SignExtend(del, chanShift)],
                              num, cs, lim, idx + 1, chanShift, denShift, denHalf)
             Sample(sum1, sign) ==
                 Store(Add32(At(pc1, idx), Add32(At(out, idx - lim), sum1)),
                       IF sign = 0 THEN coefs
                       ELSE UnrolledAdapt(coefs, out, idx, lim, denShift, sign,
                                          At(pc1, idx), lim - 2))
         IN  Sample(Shr32(UnrolledSum(denHalf, coefs, out, idx, lim, lim - 1), denShift),
                    signOfInt(At(pc1, idx)))

unpcBlock4(pc1, out, num, coefs, lim, chanShift, denShift, denHalf) ==
    UnrolledLoop(pc1, out, num, SubSeq(coefs, 1, 4), lim, lim, chanShift, denShift, denHalf)

unpcBlock8(pc1, out, num, coefs, lim, chanShift, denShift, denHalf) ==
    UnrolledLoop(pc1, out, num, SubSeq(coefs, 1, 8), lim, lim, chanShift, denShift, denHalf)

RECURSIVE GeneralSum(_, _, _, _, _)
\* sum1 += int32(coefsNA[k]) * (hist[activeCount-k] - top), k below n
GeneralSum(coefs, out, idx, activeCount, n) ==
    IF n = 0 THEN 0
    ELSE Add32(GeneralSum(coefs, out, idx, activeCount, n - 1),
               Mul32(At(coefs, n - 1),
                     Sub32(At(out, idx - n), At(out, idx - activeCount - 1))))

RECURSIVE GeneralAdapt(_, _, _, _, _, _, _, _)
\* The adaptation loop from coefficient k down: coefsNA[k] is an int16.
GeneralAdapt(coefs, out, idx, activeCount, denShift, sign, del0, k) ==
    LET Stop(d0) == (sign > 0 /\ d0 <= 0) \/ (sign < 0 /\ d0 >= 0)
        Go(cs, d0) ==
            IF Stop(d0) THEN cs
            ELSE GeneralAdapt(cs, out, idx, activeCount, denShift, sign, d0, k - 1)
        Turn(dd, sgn) ==
            IF sign > 0
            THEN Go([coefs EXCEPT ![k + 1] = Int16(@ - Int16(sgn))],
                    Sub32(del0, Mul32(activeCount - k, Shr32(Mul32(sgn, dd), denShift))))
            ELSE Go([coefs EXCEPT ![k + 1] = Int16(@ + Int16(sgn))],
                    Sub32(del0, Mul32(activeCount - k, Shr32(Mul32(-sgn, dd), denShift))))
        Diff(dd) == Turn(dd, signOfInt(dd))
    IN  IF k < 0 THEN coefs
        ELSE Diff(Sub32(At(out, idx - activeCount - 1), At(out, idx - 1 - k)))

RECURSIVE GeneralLoop(_, _, _, _, _, _, _, _, _)
\* for idx := lim; idx < num; idx++ of unpcBlockGeneral
GeneralLoop(pc1, out, num, coefs, numActive, idx, chanShift, denShift, denHalf) ==
    IF idx >= num THEN PredictorResult(out, coefs)
    ELSE LET Store(del, cs) ==
                 GeneralLoop(pc1, [out EXCEPT ![idx + 1] = SignExtend(del, chanShift)],
                             num, cs, numActive, idx + 1, chanShift, denShift, denHalf)
             Sample(sum1, sign) ==
                 Store(Add32(At(pc1, idx),
                             Add32(At(out, idx - numActive - 1),
                                   Shr32(Add32(sum1, denHalf), denShift))),
                       IF sign = 0 THEN coefs
                       ELSE GeneralAdapt(coefs, out, idx, numActive, denShift, sign,
                                         At(pc1, idx), numActive - 1))
         IN  Sample(GeneralSum(coefs, out, idx, numActive, numActive),
                    signOfInt(At(pc1, idx)))

unpcBlockGeneral(pc1, out, num, coefs, numActive, lim, chanShift, denShift, denHalf) ==
    GeneralLoop(pc1, out, num, SubSeq(coefs, 1, numActive), numActive, lim,
                chanShift, denShift, denHalf)

\* denHalf = 1 << (denShift - 1) when denShift > 0
DenHalf(denShift) == IF denShift > 0 THEN 2^(denShift - 1) ELSE 0

\* UnpcBlock on the slices pc1 and out, num <= len(pc1), len(out).  The
\* warm-up phase indexes both up to numActive whatever num is, and panics at
\* the first index one of them does not have.
UnpcBlock(pc1, out, num, coefs, numActive, chanBits, denShift) ==
    LET Switch(warm) ==
            CASE numActive = 4 ->
                   unpcBlock4(pc1, warm, num, coefs, numActive + 1, 32 - chanBits,
                              denShift, DenHalf(denShift))
              [] numActive = 8 ->
                   unpcBlock8(pc1, warm, num, coefs, numActive + 1, 32 - chanBits,
                              denShift, DenHalf(denShift))
              [] OTHER ->
                   unpcBlockGeneral(pc1, warm, num, coefs, numActive, numActive + 1,
                                    32 - chanBits, denShift, DenHalf(denShift))
        Shortest == Min(Len(pc1), Len(out))
    IN  IF numActive = 0
        THEN PredictorResult([i \in 1..Len(out) |-> IF i <= num THEN pc1[i] ELSE out[i]],
                             coefs)
        ELSE IF numActive = NumActiveDelta
        THEN PredictorResult(DeltaLoop(pc1, [out EXCEPT ![1] = At(pc1, 0)], num, 1,
                                       32 - chanBits), coefs)
        ELSE IF numActive >= Shortest
        THEN PredictorPanic(WarmUp(pc1, out, Shortest - 1, 32 - chanBits), coefs)
        ELSE Switch(WarmUp(pc1, out, numActive, 32 - chanBits))

\* The general routine on the input of the switch.
GeneralForm(pc1, num, coefs, numActive, chanBits, denShift) ==
    unpcBlockGeneral(pc1, WarmUp(pc1, Zeros(num), numActive, 32 - chanBits), num, coefs,
                     numActive, numActive + 1, 32 - chanBits, denShift, DenHalf(denShift))

NoResult == PredictorResult(<< >>, << >>)

\* unpc when UnpcBlock is not being looked at
NoRun ==
    [pc |-> "none", numActive |-> 0, pc1 |-> << >>, coefs |-> << >>, chanBits |-> 0,
     denShift |-> 0, special |-> NoResult, general |-> NoResult]

(***************************************************************************)
(* The container walk (FindALACTrack), over files of bytes.  The reader is *)
(* an in-memory or on-disk byte store: Seek to any offset >= 0 succeeds,   *)
(* io.ReadFull of n > 0 bytes fails at or across the end of the file.      *)
(*                                                                         *)
(* Numbers read from the file are held exactly below 2^30.  A value of     *)
(* 2^30 or more is held as Far: it is past the end of every file of the    *)
(* model, and a slice of that length is one the runtime may be unable to   *)
(* allocate (mem tells whether it can); a slice of fewer elements is       *)
(* allocated.  A 64-bit size of 2^48 or more is held as Unallocatable:     *)
(* make() of that length panics or exhausts memory.  A 64-bit value with   *)
(* the top bit set is negative as an int64, held as -1.  Sums do not wrap: *)
(* a size within 2^30 of 2^63 is outside the model.                        *)
(***************************************************************************)
Far == 1073741824
Unallocatable == Far + 1

\* binary.BigEndian.Uint32(data[off:])
Uint32(data, off) ==
    IF At(data, off) >= 64 THEN Far
    ELSE At(data, off) * 16777216 + At(data, off + 1) * 65536
           + At(data, off + 2) * 256 + At(data, off + 3)

\* binary.BigEndian.Uint16(data[off:])
Uint16(data, off) == At(data, off) * 256 + At(data, off + 1)

\* int64(binary.BigEndian.Uint64(data[off:]))
Uint64(data, off) ==
    IF At(data, off) >= 128 THEN -1
    ELSE IF At(data, off) # 0 \/ At(data, off + 1) # 0 THEN Unallocatable
    ELSE IF At(data, off + 2) # 0 \/ At(data, off + 3) # 0 THEN Far
    ELSE Uint32(data, off + 4)

\* a + b, held as Far from 2^30 on, negative when a is
Plus(a, b) ==
    IF a < 0 THEN a
    ELSE IF a >= Far \/ b >= Far THEN Far
    ELSE Min(a + b, Far)

smallHeaderSize == 8
largeHeaderSize == 16
fullBoxSize == 4

FourCC(a, b, c, d) == <<a, b, c, d>>
fccMoov == FourCC(109, 111, 111, 118)
fccTrak == FourCC(116, 114, 97, 107)
fccMdia == FourCC(109, 100, 105, 97)
fccMinf == FourCC(109, 105, 110, 102)
fccStbl == FourCC(115, 116, 98, 108)
fccStsd == FourCC(115, 116, 115, 100)
fccStco == FourCC(115, 116, 99, 111)
fccCo64 == FourCC(99, 111, 54, 52)
fccStsc == FourCC(115, 116, 115, 99)
fccStsz == FourCC(115, 116, 115, 122)
alacFourCC == FourCC(97, 108, 97, 99)
fccFrma == FourCC(102, 114, 109, 97)

\* boxInfo, with the error of the call that made it: "nil", "eof" (io.EOF or
\* io.ErrUnexpectedEOF) or "InvalidBoxSize"
BoxInfo(err, offset, size, headerSize, fourCC) ==
    [err |-> err, offset |-> offset, size |-> size, headerSize |-> headerSize,
     fourCC |-> fourCC]

NoBox(err) == BoxInfo(err, 0, 0, 0, << >>)

\* io.ReadFull(reader, buf) with the reader at pos and len(buf) = n succeeds
ReadFullOK(file, pos, n) == n = 0 \/ (n < Far /\ pos < Far /\ pos + n <= Len(file))

readBoxInfoBug(file, offset) ==
    LET Sized(size, headerSize) ==
            BoxInfo("nil", offset, size, headerSize, SubSeq(file, offset + 5, offset + 8))
        Raw(rawSize) ==
            IF rawSize = 0 THEN Sized(Len(file) - offset, smallHeaderSize)
            ELSE IF rawSize = 1
            THEN IF ~ReadFullOK(file, offset + smallHeaderSize, 8) THEN NoBox("eof")
                 ELSE Sized(Max(0, Uint64(file, offset + smallHeaderSize)), largeHeaderSize)
            ELSE Sized(rawSize, smallHeaderSize)
    IN  IF ~ReadFullOK(file, offset, smallHeaderSize) THEN NoBox("eof")
        ELSE Raw(Uint32(file, offset))

\* readBoxInfo with the reader at offset
readBoxInfo(file, offset) ==
    LET Sized(size, headerSize) ==
            IF size < headerSize THEN NoBox("InvalidBoxSize")
            ELSE BoxInfo("nil", offset, size, headerSize,
                         SubSeq(file, offset + 5, offset + 8))
        Raw(rawSize) ==
            IF rawSize = 0 THEN Sized(Len(file) - offset, smallHeaderSize)
            ELSE IF rawSize = 1
            THEN IF ~ReadFullOK(file, offset + smallHeaderSize, 8) THEN NoBox("eof")
                 ELSE Sized(Uint64(file, offset + smallHeaderSize), largeHeaderSize)
            ELSE Sized(rawSize, smallHeaderSize)
    IN  IF ~ReadFullOK(file, offset, smallHeaderSize) THEN NoBox("eof")
        ELSE Raw(Uint32(file, offset))

payloadOffset(info) == info.offset + info.headerSize
payloadSize(info) == info.size - info.headerSize
BoxEnd(info) == Plus(info.offset, info.size)

\* [err, found, box]
Found(err, found, box) == [err |-> err, found |-> found, box |-> box]

\* The loop of iterChildren under findChild's callback, the reader at pos:
\* the first child of type target between pos and end.
RECURSIVE IterFind(_, _, _, _)
IterFind(file, pos, end, target) ==
    LET Child(child) ==
            IF child.err = "eof" THEN Found("nil", FALSE, NoBox("nil"))
            ELSE IF child.err # "nil" THEN Found(child.err, FALSE, NoBox("nil"))
            ELSE IF child.fourCC = target THEN Found("nil", TRUE, child)
            ELSE IterFind(file, BoxEnd(child), end, target)
    IN  IF pos >= end THEN Found("nil", FALSE, NoBox("nil"))
        ELSE Child(readBoxInfo(file, pos))

findChild(file, parent, target) ==
    IterFind(file, payloadOffset(parent), BoxEnd(parent), target)

RECURSIVE findDescendant(_, _, _, _)
\* from the i-th element of path on
findDescendant(file, parent, path, i) ==
    LET Step(c) ==
            IF c.err # "nil" \/ ~c.found THEN c
            ELSE findDescendant(file, c.box, path, i + 1)
    IN  IF i > Len(path) THEN Found("nil", TRUE, parent)
        ELSE Step(findChild(file, parent, path[i]))

sampleEntryHeaderSize == 8
sampleEntryBaseSize == 28
sampleEntryV1Extra == 16
stsdPayloadHeader == 8

\* make([]T, count) followed by io.ReadFull of count entries of width bytes
\* at start: "nil", "short" (the read fails) or "abort" (the allocation does)
CountedRead(file, start, count, width, mem) ==
    IF count >= Far THEN (IF mem THEN "short" ELSE "abort")
    ELSE IF count > Len(file) THEN "short"
    ELSE IF ReadFullOK(file, start, count * width) THEN "nil" ELSE "short"

\* [err, cookie]
CookieResult(err, cookie) == [err |-> err, cookie |-> cookie]

\* The loop of extractCookie over the sample entries of the stsd payload
\* data, at pos, with left turns to go.  An entry of size 0 that is skipped
\* is read again by every turn that is left.
RECURSIVE SampleEntries(_, _, _)
SampleEntries(data, pos, left) ==
    LET Cookie(cookieStart, cookieEnd) ==
            IF cookieStart >= cookieEnd THEN CookieResult("InvalidEntry", << >>)
            ELSE CookieResult("nil", SubSeq(data, cookieStart + 1, cookieEnd))
        Entry(entrySize) ==
            IF \/ entrySize < sampleEntryHeaderSize + sampleEntryBaseSize
               \/ Plus(pos, entrySize) > Len(data)
               \/ SubSeq(data, pos + 5, pos + 8) # alacFourCC
            THEN IF entrySize = 0 THEN CookieResult("NoALACTrack", << >>)
                 ELSE SampleEntries(data, Plus(pos, entrySize), left - 1)
            ELSE Cookie(pos + sampleEntryHeaderSize + sampleEntryBaseSize
                          + (IF Uint16(data, pos + sampleEntryHeaderSize + 8) = 1
                             THEN sampleEntryV1Extra ELSE 0),
                        pos + entrySize)
    IN  IF left = 0 \/ pos + sampleEntryHeaderSize > Len(data)
        THEN CookieResult("NoALACTrack", << >>)
        ELSE Entry(Uint32(data, pos))

extractCookie(file, stbl, mem) ==
    LET Parse(data) ==
            IF Len(data) < stsdPayloadHeader THEN CookieResult("NoALACTrack", << >>)
            ELSE SampleEntries(data, stsdPayloadHeader, Uint32(data, 4))
        Payload(stsd) ==
            IF stsd.size >= Unallocatable THEN CookieResult("abort", << >>)
            ELSE IF stsd.size >= Far
            THEN CookieResult(IF mem THEN "ReadStsd" ELSE "abort", << >>)
            ELSE IF ~ReadFullOK(file, payloadOffset(stsd), payloadSize(stsd))
            THEN CookieResult("ReadStsd", << >>)
            ELSE Parse(SubSeq(file, payloadOffset(stsd) + 1,
                              payloadOffset(stsd) + payloadSize(stsd)))
        Stsd(c) ==
            IF c.err # "nil" \/ ~c.found THEN CookieResult("NoALACTrack", << >>)
            ELSE Payload(c.box)
    IN  Stsd(findChild(file, stbl, fccStsd))

\* [err, list]
ListResult(err, list) == [err |-> err, list |-> list]

\* FullBox(4) + entryCount(4) + entryCount entries of width bytes, read at
\* the payload of box: the offsets in the file of the entries read.
ReadEntries(file, box, width, mem, invalid) ==
    LET Counted(start, count, read) ==
            IF read = "abort" THEN ListResult("abort", << >>)
            ELSE IF read # "nil" THEN ListResult(invalid, << >>)
            ELSE ListResult("nil", [i \in 1..count |-> start + (i - 1) * width])
        Count(start, count) ==
            Counted(start, count, CountedRead(file, start, count, width, mem))
    IN  IF ~ReadFullOK(file, payloadOffset(box), fullBoxSize + 4)
        THEN ListResult(invalid, << >>)
        ELSE Count(payloadOffset(box) + fullBoxSize + 4,
                   Uint32(file, payloadOffset(box) + fullBoxSize))

\* the entries at the offsets of r, each decoded by its reader
StcoEntries(file, r) ==
    ListResult(r.err, [i \in 1..Len(r.list) |-> Uint32(file, r.list[i])])

\* uint64 offsets
Co64Entries(file, r) ==
    ListResult(r.err, [i \in 1..Len(r.list) |->
                          Min(Uint64(file, r.list[i]), Far)])

StscEntries(file, r) ==
    ListResult(r.err, [i \in 1..Len(r.list) |->
                          [FirstChunk |-> Uint32(file, r.list[i]),
                           SamplesPerChunk |-> Uint32(file, r.list[i] + 4)]])

readStco(file, box, mem) ==
    StcoEntries(file, ReadEntries(file, box, 4, mem, "NoChunkOffset"))

readCo64(file, box, mem) ==
    Co64Entries(file, ReadEntries(file, box, 8, mem, "InvalidCo64"))

readChunkOffsets(file, stbl, mem) ==
    LET Co64(c) ==
            IF c.err # "nil" \/ ~c.found THEN ListResult("NoChunkOffset", << >>)
            ELSE readCo64(file, c.box, mem)
        Stco(c) ==
            IF c.err = "nil" /\ c.found THEN readStco(file, c.box, mem)
            ELSE Co64(findChild(file, stbl, fccCo64))
    IN  Stco(findChild(file, stbl, fccStco))

readStsc(file, stbl, mem) ==
    LET Stsc(c) ==
            IF c.err # "nil" \/ ~c.found THEN ListResult("NoStsc", << >>)
            ELSE StscEntries(file, ReadEntries(file, c.box, 12, mem, "InvalidStsc"))
    IN  Stsc(findChild(file, stbl, fccStsc))

\* [err, sizes, constantSize, sampleCount]
StszResult(err, sizes, constantSize, sampleCount) ==
    [err |-> err, sizes |-> sizes, constantSize |-> constantSize,
     sampleCount |-> sampleCount]

readStsz(file, stbl, mem) ==
    LET Sizes(start, sampleCount, read) ==
            IF read = "abort" THEN StszResult("abort", << >>, 0, 0)
            ELSE IF read # "nil" THEN StszResult("InvalidStsz", << >>, 0, 0)
            ELSE StszResult("nil",
                            [i \in 1..sampleCount |-> Uint32(file, start + (i - 1) * 4)],
                            0, sampleCount)
        Header(start, sampleSize, sampleCount) ==
            IF sampleSize # 0 THEN StszResult("nil", << >>, sampleSize, sampleCount)
            ELSE Sizes(start, sampleCount, CountedRead(file, start, sampleCount, 4, mem))
        Box(box) ==
            IF ~ReadFullOK(file, payloadOffset(box), fullBoxSize + 8)
            THEN StszResult("InvalidStsz", << >>, 0, 0)
            ELSE Header(payloadOffset(box) + fullBoxSize + 8,
                        Uint32(file, payloadOffset(box) + fullBoxSize),
                        Uint32(file, payloadOffset(box) + fullBoxSize + 4))
        Stsz(c) ==
            IF c.err # "nil" \/ ~c.found THEN StszResult("NoStsz", << >>, 0, 0)
            ELSE Box(c.box)
    IN  Stsz(findChild(file, stbl, fccStsz))

\* from the i-th entry on, samplesPerChunk being the value of the entries before
RECURSIVE lookupFrom(_, _, _, _)
lookupFrom(entries, chunkNumber, i, samplesPerChunk) ==
    IF i > Len(entries) THEN samplesPerChunk
    ELSE IF entries[i].FirstChunk > chunkNumber THEN samplesPerChunk
    ELSE lookupFrom(entries, chunkNumber, i + 1, entries[i].SamplesPerChunk)

lookupSamplesPerChunkBug(entries, chunkNumber) ==
    IF entries = << >> THEN 0 ELSE entries[1].SamplesPerChunk

lookupSamplesPerChunk(entries, chunkNumber) == lookupFrom(entries, chunkNumber, 1, 0)

SampleInfo(offset, size) == [Offset |-> offset, Size |-> size]

ChunkSamplesBug(z, chunkOffset, left, sampleIdx) ==
    IF left = 0 THEN << >> ELSE <<SampleInfo(chunkOffset, 0)>>

\* The inner loop of buildSampleTable: the samples appended for one chunk,
\* left = samplesInChunk - iter, sampleIdx 0-based.
RECURSIVE ChunkSamples(_, _, _, _)
ChunkSamples(z, chunkOffset, left, sampleIdx) ==
    LET Sample(size) ==
            <<SampleInfo(chunkOffset, size)>>
              \o ChunkSamples(z, Plus(chunkOffset, size), left - 1, sampleIdx + 1)
    IN  IF left = 0 \/ sampleIdx >= z.sampleCount THEN << >>
        ELSE Sample(IF z.constantSize # 0 THEN z.constantSize ELSE z.sizes[sampleIdx + 1])

\* The outer loop, from chunk chunkIdx (0-based) on.
RECURSIVE ChunkLoop(_, _, _, _, _)
ChunkLoop(chunkOffsets, stscEntries, z, chunkIdx, sampleIdx) ==
    LET Chunk(these) ==
            these \o ChunkLoop(chunkOffsets, stscEntries, z, chunkIdx + 1,
                               sampleIdx + Len(these))
    IN  IF chunkIdx >= Len(chunkOffsets) THEN << >>
        ELSE Chunk(ChunkSamples(z, chunkOffsets[chunkIdx + 1],
                                lookupSamplesPerChunk(stscEntries, chunkIdx + 1),
                                sampleIdx))

\* some chunk holds 2^30 samples or more
Unbounded(entries) == \E i \in 1..Len(entries) : entries[i].SamplesPerChunk >= Far

\* make([]SampleInfo, 0, sampleCount) of 2^30 samples or more may fail, and a
\* table that grows to that length exhausts memory.
buildSampleTable(file, stbl, mem) ==
    LET Table(chunkOffsets, stscEntries, z) ==
            IF z.err # "nil" THEN ListResult(z.err, << >>)
            ELSE IF z.sampleCount >= Far /\ (~mem \/ Unbounded(stscEntries.list))
            THEN ListResult("abort", << >>)
            ELSE ListResult("nil", ChunkLoop(chunkOffsets.list, stscEntries.list, z, 0, 0))
        Stsc(chunkOffsets, stscEntries) ==
            IF stscEntries.err # "nil" THEN stscEntries
            ELSE Table(chunkOffsets, stscEntries, readStsz(file, stbl, mem))
        Offsets(chunkOffsets) ==
            IF chunkOffsets.err # "nil" THEN chunkOffsets
            ELSE Stsc(chunkOffsets, readStsc(file, stbl, mem))
    IN  Offsets(readChunkOffsets(file, stbl, mem))

\* [err, cookie, samples]
TrackResult(err, cookie, table) == [err |-> err, cookie |-> cookie, samples |-> table]

\* The loop of iterChildren under FindALACTrack's callback, the reader at
\* pos: the first trak between pos and end with an ALAC sample entry.
RECURSIVE IterTraks(_, _, _, _)
IterTraks(file, pos, end, mem) ==
    LET Table(c, t) ==
            IF t.err # "nil" THEN TrackResult(t.err, << >>, << >>)
            ELSE TrackResult("nil", c.cookie, t.list)
        Cookie(trak, stbl, c) ==
            IF c.err = "abort" THEN TrackResult("abort", << >>, << >>)
            ELSE IF c.err # "nil" THEN IterTraks(file, BoxEnd(trak), end, mem)
            ELSE Table(c, buildSampleTable(file, stbl, mem))
        Stbl(trak, d) ==
            IF d.err # "nil" THEN TrackResult(d.err, << >>, << >>)
            ELSE IF ~d.found THEN IterTraks(file, BoxEnd(trak), end, mem)
            ELSE Cookie(trak, d.box, extractCookie(file, d.box, mem))
        Child(trak) ==
            IF trak.err = "eof" THEN TrackResult("NoALACTrack", << >>, << >>)
            ELSE IF trak.err # "nil" THEN TrackResult(trak.err, << >>, << >>)
            ELSE IF trak.fourCC # fccTrak THEN IterTraks(file, BoxEnd(trak), end, mem)
            ELSE Stbl(trak, findDescendant(file, trak, <<fccMdia, fccMinf, fccStbl>>, 1))
    IN  IF pos >= end THEN TrackResult("NoALACTrack", << >>, << >>)
        ELSE Child(readBoxInfo(file, pos))

FindALACTrack(file, mem) ==
    LET Moov(c) ==
            IF c.err # "nil" THEN TrackResult(c.err, << >>, << >>)
            ELSE IF ~c.found THEN TrackResult("NoALACTrack", << >>, << >>)
            ELSE IterTraks(file, payloadOffset(c.box), BoxEnd(c.box), mem)
    IN  Moov(findChild(file, BoxInfo("nil", 0, Len(file), 0, << >>), fccMoov))

(***************************************************************************)
(* ParseMagicCookie, NewPacketDecoder and NewDecoder.  An error is the set *)
(* of the sentinels it wraps, empty for nil.                               *)
(***************************************************************************)
configSize == 24
atomHeaderSize == 12
alacBitDepths == {16, 20, 24, 32}

NoConfig ==
    [frameLength |-> 0, bitDepth |-> 0, pb |-> 0, mb |-> 0, kb |-> 0,
     numChannels |-> 0, maxRun |-> 0, maxFrameBytes |-> 0, avgBitRate |-> 0,
     sampleRate |-> 0]

\* [err, config]
ConfigResult(err, config) == [err |-> err, config |-> config]

\* len(data) >= atomHeaderSize && data[4..8] == fourCC
HasAtom(data, fourCC) == Len(data) >= atomHeaderSize /\ SubSeq(data, 5, 8) = fourCC

SkipAtomBug(data) == SubSeq(data, smallHeaderSize + 1, Len(data))

\* data = data[atomHeaderSize:]
SkipAtom(data) == SubSeq(data, atomHeaderSize + 1, Len(data))

UnsupportedVersionBug(data) == At(data, 4) > 1

\* compatibleVersion := data[4]; compatibleVersion > 0
UnsupportedVersion(data) == At(data, 4) > 0

ParseMagicCookie(cookie) ==
    LET Fields(data) ==
            IF Len(data) < configSize
            THEN ConfigResult({"ErrConfig", "InvalidCookie"}, NoConfig)
            ELSE IF UnsupportedVersion(data)
            THEN ConfigResult({"ErrConfig", "UnsupportedVersion"}, NoConfig)
            ELSE ConfigResult({},
                   [frameLength |-> Uint32(data, 0), bitDepth |-> At(data, 5),
                    pb |-> At(data, 6), mb |-> At(data, 7), kb |-> At(data, 8),
                    numChannels |-> At(data, 9), maxRun |-> Uint16(data, 10),
                    maxFrameBytes |-> Uint32(data, 12),
                    avgBitRate |-> Uint32(data, 16), sampleRate |-> Uint32(data, 20)])
        Alac(data) == Fields(IF HasAtom(data, alacFourCC) THEN SkipAtom(data) ELSE data)
    IN  Alac(IF HasAtom(cookie, fccFrma) THEN SkipAtom(cookie) ELSE cookie)

SupportedDepthBug(depth) == depth >= 16

\* slices.Contains(alacBitDepths, config.BitDepth)
SupportedDepth(depth) == depth \in alacBitDepths

\* [err, abort]: the scratch buffers hold frameLength values
NewPacketDecoder(config, mem) ==
    IF ~SupportedDepth(config.bitDepth)
    THEN [err |-> {"ErrConfig", "UnsupportedBitDepth"}, abort |-> FALSE]
    ELSE [err |-> {}, abort |-> config.frameLength >= Far /\ ~mem]

\* What NewDecoder(rs) returns: the error, or the config and the packet
\* table of the Decoder; abort when it does not return.
OpenResult(err, abort, config, table) ==
    [err |-> err, abort |-> abort, config |-> config, table |-> table]

\* fmt.Errorf("%w: %w", ErrNoTrack, err)
WalkError(err) == {"ErrNoTrack", err}

OpenDecoder(file, mem) ==
    LET Buffer(t, config) ==
            OpenResult({},
                       ~mem /\ config.frameLength * config.numChannels
                                 * BytesPerSample(config.bitDepth) >= Far,
                       config, t.samples)
        Decoder(t, config, d) ==
            IF d.err # {} THEN OpenResult(d.err, FALSE, NoConfig, << >>)
            ELSE IF d.abort THEN OpenResult({}, TRUE, NoConfig, << >>)
            ELSE Buffer(t, config)
        Config(t, c) ==
            IF c.err # {} THEN OpenResult(c.err, FALSE, NoConfig, << >>)
            ELSE Decoder(t, c.config, NewPacketDecoder(c.config, mem))
        Track(t) ==
            IF t.err = "abort" THEN OpenResult({}, TRUE, NoConfig, << >>)
            ELSE IF t.err # "nil" THEN OpenResult(WalkError(t.err), FALSE, NoConfig, << >>)
            ELSE Config(t, ParseMagicCookie(t.cookie))
    IN  Track(FindALACTrack(file, mem))

(***************************************************************************)
(* decodePacketInto as a function of the config and the packet: the loop   *)
(* that SpecPkt takes turn by turn.  It yields n, the error (the set of    *)
(* the sentinels it wraps), whether the call panicked, and the output      *)
(* slots as the call left them.                                            *)
(***************************************************************************)
UnsupportedBug == {"ErrDecode"}

\* return 0, fmt.Errorf("%w: %w", ErrDecode, alacint.ErrUnsupportedElement)
Unsupported == {"ErrDecode", "UnsupportedElement"}

PacketResult(n, err, panicked, output) ==
    [n |-> n, err |-> err, panicked |-> panicked, output |-> output]

RECURSIVE DispatchLoop(_, _, _, _, _, _)
\* elems counts the turns, the mark of the turn's element
DispatchLoop(c, b, output, chanIdx, numSamples, elems) ==
    LET Finish(ns, out) ==
            PacketResult(ns * c.numChannels * BytesPerSample(c.bitDepth), {}, FALSE, out)
        Fail(r, out) ==
            IF r.err = "panic" THEN PacketResult(0, {}, TRUE, out)
            ELSE PacketResult(0, {"ErrDecode", r.err}, FALSE, out)
        Channel(r, channels) ==
            IF r.err # "nil" THEN Fail(r, r.output)
            ELSE IF chanIdx + channels >= c.numChannels THEN Finish(r.numSamples, r.output)
            ELSE DispatchLoop(c, r.b, r.output, chanIdx + channels, r.numSamples, elems + 1)
        Skip(r) ==
            IF r.err # "nil" THEN Fail(r, output)
            ELSE DispatchLoop(c, r.b, output, chanIdx, numSamples, elems + 1)
        Tag(t) ==
            CASE t.v \in {elemSCE, elemLFE} ->
                   Channel(decodeSCE(c, t.b, output,
                                     channelLayoutOffsets[c.numChannels][chanIdx + 1],
                                     c.numChannels, numSamples, elems), 1)
              [] t.v = elemCPE ->
                   IF chanIdx + 2 > c.numChannels THEN Finish(numSamples, output)
                   ELSE Channel(decodeCPE(c, t.b, output,
                                          channelLayoutOffsets[c.numChannels][chanIdx + 1],
                                          c.numChannels, numSamples, elems), 2)
              [] t.v \in {elemCCE, elemPCE} ->
                   PacketResult(0, Unsupported, FALSE, output)
              [] t.v = elemDSE -> Skip(skipDSE(t.b))
              [] t.v = elemFIL -> Skip(skipFIL(t.b))
              [] t.v = elemEND -> Finish(numSamples, output)
    IN  IF BitBufferPastEnd(b)
        THEN PacketResult(0, {"ErrDecode", "BitstreamOverrun"}, FALSE, output)
        ELSE Tag(BitBufferReadSmall(b, 3))

decodePacketInto(c, packet) ==
    DispatchLoop(c, BitBufferReset(packet), Zeros(c.frameLength * c.numChannels), 0,
                 c.frameLength, 1)

(***************************************************************************)
(* Files.  A file is an mdat box holding the packets, followed by the moov *)
(* box: moov > trak > mdia > minf > stbl > stsd, stco, stsc, stsz.  The    *)
(* stsd has one sample entry holding the magic cookie.                     *)
(***************************************************************************)
\* v in n bytes, big-endian
BE(v, n) == [i \in 1..n |-> (v \div 256^(n - i)) % 256]

Box(fourCC, payload) == BE(smallHeaderSize + Len(payload), 4) \o fourCC \o payload

\* a box with version and flags
FullBox(fourCC, payload) == Box(fourCC, Zeros(fullBoxSize) \o payload)

\* a box of 64-bit size whose size field holds the eight bytes size
LargeBox(fourCC, size, payload) == BE(1, 4) \o fourCC \o size \o payload

fccMdat == FourCC(109, 100, 97, 116)
fccMp4a == FourCC(109, 112, 52, 97)

\* ALACSpecificConfig: frames of two samples, mono, sample rate 3
ConfigBytes(version, depth) ==
    BE(2, 4) \o <<version, depth, 40, 10, 14, 1>> \o BE(255, 2) \o BE(0, 4) \o BE(0, 4)
      \o BE(3, 4)

\* the config in its 'alac' atom
AlacAtom(config) == BE(atomHeaderSize + Len(config), 4) \o alacFourCC \o Zeros(4) \o config

FrmaAtom == BE(atomHeaderSize, 4) \o fccFrma \o alacFourCC

\* a sample entry of QuickTime version 0
SampleEntry(fourCC, cookie) == Box(fourCC, Zeros(sampleEntryBaseSize) \o cookie)

RECURSIVE BEs(_, _, _)
\* the values of list from the i-th on, n bytes each
BEs(list, n, i) == IF i > Len(list) THEN << >> ELSE BE(list[i], n) \o BEs(list, n, i + 1)

StsdBox(entry) == FullBox(fccStsd, BE(1, 4) \o entry)
StcoBox(offsets) == FullBox(fccStco, BE(Len(offsets), 4) \o BEs(offsets, 4, 1))
\* one offset, of 64 bits
Co64Box(offset) == FullBox(fccCo64, BE(1, 4) \o Zeros(4) \o BE(offset, 4))
\* one run: from chunk 1 on, perChunk samples per chunk
StscBox(perChunk) == FullBox(fccStsc, BE(1, 4) \o BE(1, 4) \o BE(perChunk, 4) \o BE(1, 4))
StszBox(count, sizes) == FullBox(fccStsz, BE(0, 4) \o BE(count, 4) \o BEs(sizes, 4, 1))

MoovBox(stbl) == Box(fccMoov, Box(fccTrak, Box(fccMdia, Box(fccMinf, Box(fccStbl, stbl)))))

RECURSIVE Flatten(_, _)
Flatten(packets, i) ==
    IF i > Len(packets) THEN << >> ELSE packets[i] \o Flatten(packets, i + 1)

MdatBox(packets) == Box(fccMdat, Flatten(packets, 1))

\* The packets of the files: an SCE of two escaped samples; the same
\* followed by an END element and a byte of padding; the same cut short;
\* a CCE element.
PacketA == Pack(ElemHeader(elemSCE, 0, 0, 0, 1) \o Sample16 \o Sample16)
PacketB == PacketA \o <<224, 0>>
PacketC == SubSeq(PacketA, 1, 2)
PacketD == Pack(Bits(elemCCE, 3))

FilePackets == {PacketA, PacketB, PacketC, PacketD}

PacketLists == UNION { [1..n -> FilePackets] : n \in 0..MaxPackets }

Sizes(packets) == [i \in 1..Len(packets) |-> Len(packets[i])]

GoodCookie == AlacAtom(ConfigBytes(0, 16))
GoodStsd == StsdBox(SampleEntry(alacFourCC, GoodCookie))

\* one chunk at the payload of mdat holding all the packets; count is the
\* sample count written into stsz
Tables4(packets, count) ==
    <<GoodStsd, StcoBox(<<smallHeaderSize>>), StscBox(Len(packets)),
      StszBox(count, Sizes(packets))>>

FileOf(packets, boxes) == MdatBox(packets) \o MoovBox(Flatten(boxes, 1))

ValidFile(packets) == FileOf(packets, Tables4(packets, Len(packets)))

\* the sample count of a valid file zeroed
ZeroedStsz(packets) == FileOf(packets, Tables4(packets, 0))

\* a valid file without its i-th box of stbl
Without(packets, i) ==
    FileOf(packets, [j \in 1..3 |-> Tables4(packets, Len(packets))[IF j < i THEN j ELSE j + 1]])

\* a valid file with its i-th box of stbl replaced
With(packets, i, box) ==
    FileOf(packets, [Tables4(packets, Len(packets)) EXCEPT ![i] = box])

Prefixes(file) == { SubSeq(file, 1, n) : n \in 0..Len(file) }

\* the eight bytes of a 64-bit size of 2^62, 2^32 and 2^63
Huge == <<64, 0, 0, 0, 0, 0, 0, 0>>
Large == <<0, 0, 0, 1, 0, 0, 0, 0>>
Negative == <<128, 0, 0, 0, 0, 0, 0, 0>>

\* an stsd of 64-bit size, the size field holding size
LargeStsd(size) ==
    LargeBox(fccStsd, size, Zeros(fullBoxSize) \o BE(1, 4) \o SampleEntry(alacFourCC, GoodCookie))

\* a count of 2^30 entries in an stco box
FarStco == FullBox(fccStco, <<64, 0, 0, 0>>)

Broken(packets) ==
    { Without(packets, i) : i \in 1..4 }
      \cup { With(packets, 1, StsdBox(SampleEntry(fccMp4a, GoodCookie))),
             With(packets, 1, StsdBox(SampleEntry(alacFourCC, SubSeq(GoodCookie, 1, 30)))),
             With(packets, 1, StsdBox(SampleEntry(alacFourCC, AlacAtom(ConfigBytes(1, 16))))),
             With(packets, 1, StsdBox(SampleEntry(alacFourCC, AlacAtom(ConfigBytes(0, 13))))),
             With(packets, 1, StsdBox(SampleEntry(alacFourCC, FrmaAtom \o GoodCookie))),
             With(packets, 1, LargeStsd(Huge)),
             With(packets, 1, LargeStsd(Large)),
             With(packets, 1, LargeStsd(Negative)),
             With(packets, 2, FarStco),
             With(packets, 2, Co64Box(smallHeaderSize)),
             With(packets, 3, BE(4, 4) \o fccStsc),
             MdatBox(packets) \o Box(fccMoov, Box(fccTrak, Box(fccMdia, << >>))),
             MdatBox(packets) \o Box(fccMoov, << >>),
             BE(4, 4) \o fccMdat \o MoovBox(Flatten(Tables4(packets, 1), 1)),
             MdatBox(packets) \o Box(fccMoov, Box(fccTrak, BE(7, 4) \o fccMdia)),
             <<0, 1, 2, 3, 4, 5, 6, 7, 8, 9, 10, 11>> }

ZeroedFiles == { ZeroedStsz(packets) : packets \in PacketLists }

Files ==
    { ValidFile(packets) : packets \in PacketLists }
      \cup ZeroedFiles
      \cup Prefixes(ValidFile(<<PacketA>>))
      \cup Broken(<<PacketA>>)

\* Magic cookies: a config, bare or behind wrappers, cut after any number
\* of its bytes.  The wrappers are the 12-byte 'frma' atom, the 12 bytes
\* in front of the config in its 'alac' atom, an 8-byte 'frma' atom holding
\* no format, and their sequences.
AlacHeader == SubSeq(AlacAtom(ConfigBytes(0, 16)), 1, atomHeaderSize)
Frma8 == BE(smallHeaderSize, 4) \o fccFrma

Wrappers ==
    { << >>, FrmaAtom, AlacHeader, FrmaAtom \o AlacHeader, AlacHeader \o AlacHeader,
      FrmaAtom \o FrmaAtom, AlacHeader \o FrmaAtom, Frma8, Frma8 \o AlacHeader }

BareConfigs == { ConfigBytes(v, d) : v \in {0, 1, 255}, d \in {16, 24, 13} }

Cookies == UNION { Prefixes(w \o c) : w \in Wrappers, c \in BareConfigs }

\* The configs NewPacketDecoder is tried on.
DepthsTried == {0, 8, 13, 15, 16, 17, 20, 24, 31, 32, 33, 255}

ConfigsTried ==
    { [NoConfig EXCEPT !.frameLength = fl, !.bitDepth = d, !.numChannels = 1,
                       !.sampleRate = 3] : fl \in {2, Far}, d \in DepthsTried }

\* What becomes of a packet of the table when Read comes to it, as a kind
\* of the source: its bytes lie in the file or they do not, and the packet
\* decoder does with them what it does.
Decoded(r, size, bps) ==
    IF r.panicked THEN [st |-> "panic", ns |-> 0, w |-> 0, size |-> size]
    ELSE IF r.err # {}
    THEN [st |-> "decode", ns |-> 0,
          w |-> bps * Cardinality({ i \in 1..Len(r.output) : r.output[i] # 0 }),
          size |-> size]
    ELSE [st |-> "ok", ns |-> r.n \div bps, w |-> 0, size |-> size]

PacketKind(c, file, info) ==
    IF info.Offset < 0 THEN [st |-> "seek", ns |-> 0, w |-> 0, size |-> info.Size]
    ELSE IF ~ReadFullOK(file, info.Offset, info.Size)
    THEN [st |-> "read", ns |-> 0, w |-> 0, size |-> info.Size]
    ELSE Decoded(decodePacketInto(c, SubSeq(file, info.Offset + 1, info.Offset + info.Size)),
                 info.Size, BytesPerFrame(c))

KindsOf(c, file, table) == [i \in 1..Len(table) |-> PacketKind(c, file, table[i])]

(***************************************************************************)
(* The source.  The reader is an immutable byte store (a file, a           *)
(* bytes.Reader), so what happens to a packet is a property of the packet: *)
(*   st = "ok"      the packet is read and decodes to ns samples           *)
(*   st = "seek"    reader.Seek to its offset fails                        *)
(*   st = "read"    io.ReadFull fails (the source ends inside the packet)  *)
(*   st = "decode"  decodePacketInto fails after writing w bytes           *)
(*   st = "panic"   decodePacketInto panics                                *)
(* and size is its length in bytes.  The tables that are not read from a   *)
(* file hold packets of one byte.                                          *)
(***************************************************************************)
PacketKinds(c) ==
    { [st |-> "ok", ns |-> n, w |-> 0, size |-> 1] : n \in {1, c.frameLength} }
      \cup { [st |-> "decode", ns |-> 0, w |-> w, size |-> 1] : w \in {0, BytesPerFrame(c)} }
      \cup { [st |-> s, ns |-> 0, w |-> 0, size |-> 1] : s \in {"seek", "read"} }

Tables(c) ==
    UNION { [1..n -> PacketKinds(c)] : n \in 0..MaxPackets }

\* The PCM that decoding packet k (0-based) on its own produces.
PacketPCM(c, tbl, k) ==
    IF tbl[k + 1].st = "ok"
    THEN [j \in 1..(tbl[k + 1].ns * BytesPerFrame(c)) |-> <<"pcm", k, j>>]
    ELSE << >>

RECURSIVE ConcatFrom(_, _, _)
\* PCM of packets k, k+1, ... in table order.
ConcatFrom(c, tbl, k) ==
    IF k >= Len(tbl) THEN << >>
    ELSE PacketPCM(c, tbl, k) \o ConcatFrom(c, tbl, k + 1)

WellFormed(tbl) == \A i \in 1..Len(tbl) : tbl[i].st = "ok"
AllFull(c, tbl) == \A i \in 1..Len(tbl) : tbl[i].st = "ok" /\ tbl[i].ns = c.frameLength

IsPrefix(s, t) == Len(s) <= Len(t) /\ SubSeq(t, 1, Len(s)) = s

(***************************************************************************)
(* NewDecoder.                                                             *)
(***************************************************************************)
\* packetBuf is len(s.packetBuf) and bitsCap is cap(s.dec.bits.Buf)
NewDecoder(c) ==
    [ sampleIdx |-> 0,
      buf       |-> [j \in 1..FrameBytes(c) |-> <<"zero", 0, j>>],
      bufLen    |-> 0,
      bufOff    |-> 0,
      eof       |-> FALSE,
      packetBuf |-> 0,
      bitsCap   |-> 0 ]

(***************************************************************************)
(* Duration, Position.                                                     *)
(***************************************************************************)
FramesToTime(c, frames) == (frames * Second) \div c.sampleRate

Duration(c, tbl) == FramesToTime(c, Len(tbl) * c.frameLength)
Position(c, s) == FramesToTime(c, s.sampleIdx * c.frameLength)

(***************************************************************************)
(* Seek.                                                                   *)
(*                                                                         *)
(* t.Seconds() is float64(sec) + float64(nsec)/1e9 and the target frame is *)
(* int64(t.Seconds() * float64(sampleRate)).  The quotient nsec/1e9 is     *)
(* exact only when it is a dyadic fraction; otherwise it is rounded, and   *)
(* when the exact product t * sampleRate is a whole number N of frames the *)
(* float64 product is N or the double just below N, which int64()          *)
(* truncates to N - 1 (2.304 s * 48000 gives 110591.99999999999).  Both    *)
(* results are outcomes of the model.  Off the whole numbers the           *)
(* truncation of the float64 product is the truncation of the exact one.   *)
(***************************************************************************)
RECURSIVE OddPart(_)
OddPart(n) == IF n % 2 = 0 THEN OddPart(n \div 2) ELSE n

\* nsec / Second is representable in binary floating point.
SecondsExact(t) == RemT(t, Second) % OddPart(Second) = 0

ExactFrames(c, t) == QuoT(t * c.sampleRate, Second)

TargetFrames(c, t) ==
    {ExactFrames(c, t)}
      \cup (IF t > 0 /\ (t * c.sampleRate) % Second = 0 /\ ~SecondsExact(t)
            THEN {ExactFrames(c, t) - 1} ELSE {})

TargetSampleBug(c, tbl, targetFrame) ==
    Max(0, Min(QuoT(targetFrame, c.frameLength) + 1, Len(tbl)))

\* targetSample = max(0, min(targetFrame / frameLength, len(s.samples)))
TargetSample(c, tbl, targetFrame) ==
    Max(0, Min(QuoT(targetFrame, c.frameLength), Len(tbl)))

SeekStateBug(s, tbl, targetSample) ==
    [s EXCEPT !.sampleIdx = targetSample,
              !.eof = targetSample >= Len(tbl)]

\* The decoder after Seek has chosen targetSample.
SeekState(s, tbl, targetSample) ==
    [s EXCEPT !.sampleIdx = targetSample,
              !.bufLen = 0,
              !.bufOff = 0,
              !.eof = targetSample >= Len(tbl)]

(***************************************************************************)
(* Read.  ReadLoop is the for-loop of Decoder.Read: s is the decoder,      *)
(* room is len(p), got the bytes copied into p so far (total = Len(got)).  *)
(* It yields the decoder after the call, the bytes copied, the error and   *)
(* whether the call stopped at the end of the table.                       *)
(***************************************************************************)
ReadResult(s, got, err, atEnd) == [s |-> s, got |-> got, err |-> err, atEnd |-> atEnd]

\* n := copy(p, s.buf[s.bufOff:])
DrainCount(room, avail) == Min(room, avail)

EndOfTableBug(total) == "EOF"

\* if total > 0 { return total, nil }; return 0, io.EOF
EndOfTable(total) == IF total > 0 THEN "nil" ELSE "EOF"

\* What decodePacketInto(packet, s.buf) leaves in the buffer's backing array
\* and returns, for packet k of the table, in terms of the packet's kind.
DecodeInto(c, tbl, k, buf) ==
    LET p == tbl[k + 1]
        n == p.ns * BytesPerFrame(c)
    IN  IF p.st = "ok"
        THEN [n |-> n, err |-> "nil",
              buf |-> [j \in 1..Len(buf) |-> IF j <= n THEN <<"pcm", k, j>> ELSE buf[j]]]
        ELSE [n |-> 0, err |-> p.st,
              buf |-> [j \in 1..Len(buf) |-> IF j <= p.w THEN <<"junk", k, j>> ELSE buf[j]]]

AfterDecodeBug(s, r) ==
    [s EXCEPT !.buf = r.buf, !.bufLen = r.n, !.bufOff = 0]

\* s.buf = s.buf[:n]; s.bufOff = 0; s.sampleIdx++
AfterDecode(s, r) ==
    [s EXCEPT !.buf = r.buf, !.bufLen = r.n, !.bufOff = 0, !.sampleIdx = @ + 1]

\* s.buf = s.buf[:cap(s.buf)], then the decode fails and Read returns.
AfterFailedDecode(s, r) ==
    [s EXCEPT !.buf = r.buf, !.bufLen = Len(r.buf)]

FailureBug(s, got, err) == ReadResult(s, << >>, err, FALSE)

\* return total, fmt.Errorf("...: %w", err)
Failure(s, got, err) == ReadResult(s, got, err, FALSE)

\* if int(sample.Size) > len(s.packetBuf) { s.packetBuf = make([]byte, sample.Size) }
GrowPacketBuf(s, size) == [s EXCEPT !.packetBuf = Max(@, size)]

\* BitBuffer.Reset(packet): the backing store is replaced by one of
\* len(packet) + bitBufferPadding bytes when its capacity is less
BitsReset(s, size) == [s EXCEPT !.bitsCap = Max(@, size + bitBufferPadding)]

RECURSIVE ReadLoop(_, _, _, _, _)
ReadLoop(c, tbl, s, room, got) ==
    IF room = 0 THEN ReadResult(s, got, "nil", FALSE)
    ELSE IF s.bufOff < s.bufLen THEN
        LET n == DrainCount(room, s.bufLen - s.bufOff)
        IN  ReadLoop(c, tbl, [s EXCEPT !.bufOff = @ + n], room - n,
                     got \o SubSeq(s.buf, s.bufOff + 1, s.bufOff + n))
    ELSE IF s.eof THEN ReadResult(s, got, EndOfTable(Len(got)), TRUE)
    ELSE IF s.sampleIdx >= Len(tbl)
        THEN ReadResult([s EXCEPT !.eof = TRUE], got, EndOfTable(Len(got)), TRUE)
    ELSE IF tbl[s.sampleIdx + 1].st \in {"seek", "read"}
        THEN Failure(GrowPacketBuf(s, tbl[s.sampleIdx + 1].size), got,
                     tbl[s.sampleIdx + 1].st)
    ELSE
        LET r == DecodeInto(c, tbl, s.sampleIdx, s.buf)
            s1 == BitsReset(GrowPacketBuf(s, tbl[s.sampleIdx + 1].size),
                            tbl[s.sampleIdx + 1].size)
        IN  IF r.err # "nil"
            THEN Failure(AfterFailedDecode(s1, r), got, r.err)
            ELSE ReadLoop(c, tbl, AfterDecode(s1, r), room, got)

(***************************************************************************)
(* The calls on a Decoder.                                                 *)
(***************************************************************************)
\* The last call: op, len(p) and what Read returned (n, err), whether Read
\* stopped at the end of the table, Seek's argument and what it returned.
NoCall == [op |-> "new", size |-> 0, n |-> 0, err |-> "nil", atEnd |-> FALSE,
           t |-> 0, ret |-> 0]

\* The packet index that round_down(t * sample_rate / frame_length) names.
FormulaIndex(c, t) == (t * c.sampleRate) \div (Second * c.frameLength)

\* round(t * sample_rate), t in ticks.
RoundFrames(c, t) == (2 * t * c.sampleRate + Second) \div (2 * Second)

NoHist == [ out      |-> << >>,  \* bytes delivered since the last Seek (or NewDecoder)
            seeks    |-> 0,      \* 0: no Seek yet, 1: there was one
            seekZero |-> FALSE,  \* the last Seek was Seek(0)
            inRange  |-> FALSE,  \* the last Seek had 0 <= t < Duration
            k        |-> 0,      \* FormulaIndex of the last Seek's argument
            off      |-> 0,      \* round(t' * sample_rate) * bytes per frame, t' its result
            start    |-> 0,      \* the packet index the last Seek selected
            virgin   |-> TRUE,   \* no byte was delivered before the last Seek
            pastEOF  |-> FALSE,  \* end-of-stream had been reported before the last Seek
            fail     |-> -1,     \* packet whose failure a Read returned since then
            late     |-> << >>,  \* bytes delivered by the Reads after that failure
            endBytes |-> FALSE,  \* the last call was a Read that ran out of packets
                                 \*   after copying bytes,
            prevEnd  |-> FALSE,  \*   the call before the last one was
            ended    |-> FALSE,  \* a Read reported io.EOF or a Seek selected no packet,
                                 \*   and no Seek selected a packet since,
            endedBefore |-> FALSE ] \*   as it was before the last call


\* Times handed to Seek.  SeekTimes: every tick from before 0 to past the end.
\* PacketTimes: -1, the first tick of every packet, and the ticks at and after
\* the end.
SeekTimes(c, tbl) == (0 - SeekMargin)..(Duration(c, tbl) + SeekMargin)

PacketTimes(c, tbl) ==
    {-1, Duration(c, tbl), Duration(c, tbl) + 1}
      \cup { (k * c.frameLength * Second + c.sampleRate - 1) \div c.sampleRate
               : k \in 0..Len(tbl) }
ReadSizes == 0..MaxRead

\* The capacities of the buffers that follow the packets' sizes.
Caps(s) == [packetBuf |-> s.packetBuf, bitsCap |-> s.bitsCap]

NoCaps == [packetBuf |-> -1, bitsCap |-> -1]

\* open.pc is "closed" before NewDecoder is called, then "open" (a Decoder
\* was returned), "failed" (an error was, the set err of the sentinels it
\* wraps) or "aborted" (NewDecoder did not return).  first holds the
\* capacities as they were when the first packet had been decoded.
Opened ==
    [pc |-> "open", file |-> << >>, mem |-> TRUE, err |-> {}, first |-> NoCaps]

\* fn when no routine is looked at on its own
NoFn == [pc |-> "none"]

\* two when there is one Decoder or none
NoPair == [tbl |-> << >>, d |-> << >>, heap |-> << >>, solo |-> << >>,
           ret |-> << >>, alone |-> << >>]

Init ==
    /\ cfg \in Configs
    /\ samples \in Tables(cfg)
    /\ dec = NewDecoder(cfg)
    /\ last = NoCall
    /\ hist = NoHist
    /\ pk = PkIdle
    /\ open = Opened
    /\ unpc = NoRun
    /\ two = NoPair
    /\ fn = NoFn

\* func (s *Decoder) Read(p []byte) (int, error), len(p) = size
Read(size) ==
    LET r == ReadLoop(cfg, samples, dec, size, << >>)
        failed == r.err \in {"seek", "read", "decode", "panic"}
    IN  /\ open.pc = "open"
        /\ dec' = r.s
        /\ last' = [op |-> "read", size |-> size, n |-> Len(r.got), err |-> r.err,
                    atEnd |-> r.atEnd, t |-> 0, ret |-> 0]
        /\ hist' = [hist EXCEPT
                      !.out = @ \o r.got,
                      !.late = IF hist.fail >= 0 THEN @ \o r.got ELSE @,
                      !.fail = IF hist.fail < 0 /\ failed THEN r.s.sampleIdx ELSE @,
                      !.endBytes = r.atEnd /\ Len(r.got) > 0,
                      !.prevEnd = hist.endBytes,
                      !.ended = @ \/ r.err = "EOF",
                      !.endedBefore = hist.ended]
        /\ open' = [open EXCEPT
                      !.first = IF @ = NoCaps /\ r.s.sampleIdx > dec.sampleIdx
                                THEN Caps(BitsReset(GrowPacketBuf(dec,
                                            samples[dec.sampleIdx + 1].size),
                                          samples[dec.sampleIdx + 1].size))
                                ELSE @]
        /\ UNCHANGED <<cfg, samples, pk, unpc, two, fn>>

\* func (s *Decoder) Seek(t time.Duration) (time.Duration, error)
Seek(t, targetFrame) ==
    LET s == SeekState(dec, samples, TargetSample(cfg, samples, targetFrame))
        ret == FramesToTime(cfg, s.sampleIdx * cfg.frameLength)
    IN  /\ open.pc = "open"
        /\ dec' = s
        /\ last' = [op |-> "seek", size |-> 0, n |-> 0, err |-> "nil",
                    atEnd |-> FALSE, t |-> t, ret |-> ret]
        /\ hist' = [NoHist EXCEPT
                      !.seeks = 1,
                      !.seekZero = (t = 0),
                      !.inRange = (0 <= t /\ t < Duration(cfg, samples)),
                      !.k = IF t >= 0 THEN FormulaIndex(cfg, t) ELSE 0,
                      !.off = RoundFrames(cfg, ret) * BytesPerFrame(cfg),
                      !.start = s.sampleIdx,
                      !.virgin = (hist.virgin /\ hist.out = << >>),
                      !.pastEOF = (hist.pastEOF \/ last.err = "EOF"),
                      !.ended = (s.sampleIdx >= Len(samples)),
                      !.endedBefore = hist.ended]
        /\ UNCHANGED <<cfg, samples, pk, open, unpc, two, fn>>

ReadCall == \E size \in ReadSizes : Read(size)
SeekCall == \E t \in PacketTimes(cfg, samples) : \E tf \in TargetFrames(cfg, t) : Seek(t, tf)

Next == ReadCall \/ SeekCall

\* Any source, Seek to the packets' times.
Spec == Init /\ [][Next]_vars

\* Well-formed sources, Seek to every time.
InitSeek == Init /\ WellFormed(samples)

SeekAnyTime == \E t \in SeekTimes(cfg, samples) : \E tf \in TargetFrames(cfg, t) : Seek(t, tf)

NextSeek == ReadCall \/ SeekAnyTime

SpecSeek == InitSeek /\ [][NextSeek]_vars

(***************************************************************************)
(* PacketDecoder.DecodePacket, one action per turn of the dispatcher loop  *)
(* of decodePacketInto.  pk holds the call's frame: the bit reader b, the  *)
(* loop's chanIdx and numSamples, the output buffer, and when the call has *)
(* ended (pc = "done") what it returned: n bytes and the set err of the    *)
(* errors the returned error wraps (empty for nil), pcm the slots handed   *)
(* back by DecodePacket, or panicked.  tag, elemStart, reserved and shift  *)
(* describe the element the last turn dispatched.                          *)
(***************************************************************************)
StreamIdle == UNCHANGED <<cfg, samples, dec, last, hist, open, unpc, two, fn>>

StreamSame == UNCHANGED <<cfg, samples, dec, last, hist, pk, unpc, two, fn>>

\* output := make([]byte, FrameLength*numChan*bps); d.bits.Reset(packet)
DecodePacket(p) ==
    /\ pk.pc = "idle"
    /\ pk' = [PkIdle EXCEPT !.pc = "loop", !.b = BitBufferReset(p.bytes),
                            !.numSamples = cfg.frameLength,
                            !.output = Zeros(cfg.frameLength * cfg.numChannels),
                            !.tmpl = p.tmpl]
    /\ StreamIdle

\* return 0, err: DecodePacket hands back nil
Failed(s, b, errs) ==
    [s EXCEPT !.pc = "done", !.b = b, !.n = 0, !.err = errs, !.pcm = << >>]

Panicked(s, b) == [s EXCEPT !.pc = "done", !.b = b, !.panicked = TRUE]

\* done: return int(numSamples) * numChan * bps, nil
Done(s) ==
    [s EXCEPT !.pc = "done",
              !.n = s.numSamples * cfg.numChannels * BytesPerSample(cfg.bitDepth),
              !.pcm = SubSeq(s.output, 1, s.numSamples * cfg.numChannels)]

\* What a turn of the loop knows once it has read the tag.
Dispatched(t) ==
    [pk EXCEPT !.b = t.b, !.tag = t.v, !.elemStart = Cursor(pk.b), !.elems = @ + 1,
               !.reserved = -1, !.shift = -1]

\* The turn has read a channel element's header fields.
WithHeader(s) ==
    [s EXCEPT !.reserved = BitsFrom(pk.b.Buf, Cursor(pk.b) + 7, UnusedHeaderBits,
                                    Len(pk.b.Buf) * 8),
              !.shift = BitsFrom(pk.b.Buf, Cursor(pk.b) + 20, 2, Len(pk.b.Buf) * 8)]

\* After decodeSCE / decodeCPE returned r for an element of so many channels.
AfterElement(s, r, channels) ==
    IF r.err = "panic" THEN Panicked(s, r.b)
    ELSE IF r.err # "nil" THEN Failed(s, r.b, {"ErrDecode", r.err})
    ELSE LET s1 == [s EXCEPT !.b = r.b, !.numSamples = r.numSamples,
                             !.output = r.output, !.chanIdx = @ + channels]
         IN  IF s1.chanIdx >= cfg.numChannels THEN Done(s1) ELSE s1

\* After skipDSE / skipFIL returned r.
AfterSkip(s, r) ==
    IF r.err = "panic" THEN Panicked(s, r.b)
    ELSE IF r.err # "nil" THEN Failed(s, r.b, {"ErrDecode", r.err})
    ELSE [s EXCEPT !.b = r.b]

InLoop == pk.pc = "loop" /\ ~BitBufferPastEnd(pk.b)

NextTag == BitBufferReadSmall(pk.b, 3)

Overrun ==
    /\ pk.pc = "loop"
    /\ BitBufferPastEnd(pk.b)
    /\ pk' = Failed(pk, pk.b, {"ErrDecode", "BitstreamOverrun"})
    /\ StreamIdle

ElemSCE ==
    /\ InLoop
    /\ NextTag.v \in {elemSCE, elemLFE}
    /\ LET s == WithHeader(Dispatched(NextTag))
           r == decodeSCE(cfg, NextTag.b, pk.output,
                          channelLayoutOffsets[cfg.numChannels][pk.chanIdx + 1],
                          cfg.numChannels, pk.numSamples, s.elems)
       IN  pk' = AfterElement(s, r, 1)
    /\ StreamIdle

ElemCPE ==
    /\ InLoop
    /\ NextTag.v = elemCPE
    /\ LET s == Dispatched(NextTag)
           r == decodeCPE(cfg, NextTag.b, pk.output,
                          channelLayoutOffsets[cfg.numChannels][pk.chanIdx + 1],
                          cfg.numChannels, pk.numSamples, s.elems)
       IN  pk' = IF pk.chanIdx + 2 > cfg.numChannels THEN Done(s)
                 ELSE AfterElement(WithHeader(s), r, 2)
    /\ StreamIdle

ElemUnsupported ==
    /\ InLoop
    /\ NextTag.v \in {elemCCE, elemPCE}
    /\ pk' = Failed(Dispatched(NextTag), NextTag.b, Unsupported)
    /\ StreamIdle

ElemDSE ==
    /\ InLoop
    /\ NextTag.v = elemDSE
    /\ pk' = AfterSkip(Dispatched(NextTag), skipDSE(NextTag.b))
    /\ StreamIdle

ElemFIL ==
    /\ InLoop
    /\ NextTag.v = elemFIL
    /\ pk' = AfterSkip(Dispatched(NextTag), skipFIL(NextTag.b))
    /\ StreamIdle

ElemEND ==
    /\ InLoop
    /\ NextTag.v = elemEND
    /\ pk' = Done([Dispatched(NextTag) EXCEPT !.b = BitBufferByteAlign(NextTag.b)])
    /\ StreamIdle

\* DecodePacket has returned; the decoder is ready for the next packet.
Return ==
    /\ pk.pc = "done"
    /\ pk' = PkIdle
    /\ StreamIdle

InitPkt ==
    /\ cfg \in PktConfigs
    /\ samples = << >>
    /\ dec = NewDecoder(cfg)
    /\ last = NoCall
    /\ hist = NoHist
    /\ pk = PkIdle
    /\ open = Opened
    /\ unpc = NoRun
    /\ two = NoPair
    /\ fn = NoFn

DecodePacketCall == pk.pc = "idle" /\ \E p \in Packets : DecodePacket(p)

NextPkt ==
    \/ DecodePacketCall
    \/ Overrun
    \/ ElemSCE
    \/ ElemCPE
    \/ ElemUnsupported
    \/ ElemDSE
    \/ ElemFIL
    \/ ElemEND
    \/ Return

SpecPkt == InitPkt /\ [][NextPkt]_vars

(***************************************************************************)
(* DecodePacket on packets of channel elements in any order, for every     *)
(* channel count of the layout table: which slots of the interleaved       *)
(* output each element writes.                                             *)
(***************************************************************************)
ChannelElements ==
    { Element("SCE", ElemHeader(elemSCE, 0, 0, 0, 1) \o Sample16 \o Sample16, TRUE),
      Element("LFE", ElemHeader(elemLFE, 0, 0, 0, 1) \o Sample16 \o Sample16, TRUE),
      Element("CPE", ElemHeader(elemCPE, 0, 0, 0, 1)
                        \o Sample16 \o Sample16 \o Sample16 \o Sample16, TRUE) }

\* Chains of channel elements; an LFE, which is decoded as an SCE is, only
\* as the last of them.
ChannelChains ==
    UNION { { es \in [1..n -> ChannelElements] :
                \A i \in 1..(n - 1) : es[i].kind # "LFE" } : n \in 1..MaxChain }

\* The whole packet of a chain, with and without the END element.
LayoutPackets ==
    UNION { { [bytes |-> Pack(AllBits(es \o tail, 1)),
               tmpl |-> [i \in 1..Len(es \o tail) |->
                           [kind |-> (es \o tail)[i].kind, valid |-> TRUE,
                            start |-> EndBit(es \o tail, i - 1),
                            end |-> EndBit(es \o tail, i)]]]
                : tail \in {<< >>, <<Element("END", Bits(elemEND, 3), TRUE)>>} }
              : es \in ChannelChains }

LayoutConfigs ==
    { [frameLength |-> 2, sampleRate |-> 3, numChannels |-> nc, bitDepth |-> 16,
       pb |-> 40, mb |-> 10, kb |-> 14, maxRun |-> 255] : nc \in 1..Len(channelLayoutOffsets) }

InitLayout ==
    /\ cfg \in LayoutConfigs
    /\ samples = << >>
    /\ dec = NewDecoder(cfg)
    /\ last = NoCall
    /\ hist = NoHist
    /\ pk = PkIdle
    /\ open = Opened
    /\ unpc = NoRun
    /\ two = NoPair
    /\ fn = NoFn

DecodeLayoutCall == pk.pc = "idle" /\ \E p \in LayoutPackets : DecodePacket(p)

NextLayout ==
    \/ DecodeLayoutCall
    \/ ElemSCE
    \/ ElemCPE
    \/ ElemEND
    \/ Return

SpecLayout == InitLayout /\ [][NextLayout]_vars

(***************************************************************************)
(* Properties of the channel slots (SpecLayout)                            *)
(***************************************************************************)
\* Channels an element of this kind carries.
ElemWidth(kind) == CASE kind = "CPE" -> 2 [] kind \in {"SCE", "LFE"} -> 1 [] OTHER -> 0

\* chanIdx when the dispatcher reaches element m of the packet.
RECURSIVE ChannelsBefore(_, _)
ChannelsBefore(tmpl, m) ==
    IF m <= 1 THEN 0 ELSE ChannelsBefore(tmpl, m - 1) + ElemWidth(tmpl[m - 1].kind)

\* Element m of the packet has been handed to decodeSCE / decodeCPE.
HandedOver(m) ==
    /\ m <= pk.elems
    /\ ElemWidth(pk.tmpl[m].kind) > 0
    /\ ChannelsBefore(pk.tmpl, m) + ElemWidth(pk.tmpl[m].kind) <= cfg.numChannels

\* Positions of the interleaved output, from 0, that carry element m's samples.
WrittenBy(m) == { s - 1 : s \in { s \in 1..Len(pk.output) : pk.output[s] = m } }

\* Slots offsets[c] .. offsets[c] + width - 1 of every sample of the frame.
SlotsOf(m) ==
    LET first == channelLayoutOffsets[cfg.numChannels][ChannelsBefore(pk.tmpl, m) + 1]
    IN  { i * cfg.numChannels + first + d :
            i \in 0..(pk.numSamples - 1), d \in 0..(ElemWidth(pk.tmpl[m].kind) - 1) }

LastSlotOf(m) ==
    channelLayoutOffsets[cfg.numChannels][ChannelsBefore(pk.tmpl, m) + 1]
      + ElemWidth(pk.tmpl[m].kind) - 1

\* C26: for every channel count and every order of SCE, LFE and CPE
\* elements, each decoded element writes exactly the slots offsets[c] (and
\* offsets[c] + 1 for a CPE) of every sample, these slots are below
\* numChannels, and no later element of the packet writes them again.
C26_SlotsInside ==
    \A m \in 1..Len(pk.tmpl) :
        HandedOver(m) =>
            /\ ~(pk.panicked /\ pk.elems = m)
            /\ LastSlotOf(m) < cfg.numChannels
            /\ WrittenBy(m) = SlotsOf(m)

(***************************************************************************)
(* NewDecoder on a file, then Read and Seek on the Decoder it returned:    *)
(* the packet table is the one FindALACTrack built, and what becomes of a  *)
(* packet is what the file and the packet decoder make of it.              *)
(***************************************************************************)
\* the Decoder before there is one
NoDecoder ==
    [ sampleIdx |-> 0, buf |-> << >>, bufLen |-> 0, bufOff |-> 0, eof |-> FALSE,
      packetBuf |-> 0, bitsCap |-> 0 ]

InitOpen ==
    /\ cfg = NoConfig
    /\ samples = << >>
    /\ dec = NoDecoder
    /\ last = NoCall
    /\ hist = NoHist
    /\ pk = PkIdle
    /\ open \in { [pc |-> "closed", file |-> f, mem |-> m, err |-> {}, first |-> NoCaps]
                    : f \in Files, m \in BOOLEAN }
    /\ unpc = NoRun
    /\ two = NoPair
    /\ fn = NoFn

\* NewDecoder(rs) returned r
Returned(r) ==
    /\ open' = [open EXCEPT !.pc = IF r.abort THEN "aborted"
                                   ELSE IF r.err # {} THEN "failed" ELSE "open",
                            !.err = r.err]
    /\ cfg' = r.config
    /\ samples' = IF r.abort \/ r.err # {} THEN << >>
                  ELSE KindsOf(r.config, open.file, r.table)
    /\ dec' = IF r.abort \/ r.err # {} THEN NoDecoder ELSE NewDecoder(r.config)
    /\ UNCHANGED <<last, hist, pk, unpc, two, fn>>

\* func NewDecoder(rs io.ReadSeeker) (*Decoder, error)
NewDecoderCall ==
    /\ open.pc = "closed"
    /\ Returned(OpenDecoder(open.file, open.mem))

ReadOpen == open.pc = "open" /\ ReadCall
SeekOpen == open.pc = "open" /\ SeekCall

NextOpen == NewDecoderCall \/ ReadOpen \/ SeekOpen

SpecOpen == InitOpen /\ [][NextOpen]_vars

(***************************************************************************)
(* ParseMagicCookie and NewPacketDecoder, called on their own.  open holds *)
(* the last call: op, its argument (cookie, or config and mem) and what it *)
(* returned (config and err, or err and abort).                            *)
(***************************************************************************)
NoApiCall ==
    [pc |-> "api", op |-> "none", cookie |-> << >>, config |-> NoConfig, mem |-> TRUE,
     err |-> {}, abort |-> FALSE]

InitCookie ==
    /\ cfg = NoConfig
    /\ samples = << >>
    /\ dec = NoDecoder
    /\ last = NoCall
    /\ hist = NoHist
    /\ pk = PkIdle
    /\ open = NoApiCall
    /\ unpc = NoRun
    /\ two = NoPair
    /\ fn = NoFn

\* func ParseMagicCookie(cookie []byte) (PacketConfig, error)
ParseMagicCookieCall(cookie) ==
    /\ open.pc = "api"
    /\ open' = [NoApiCall EXCEPT !.op = "parse", !.cookie = cookie,
                                 !.config = ParseMagicCookie(cookie).config,
                                 !.err = ParseMagicCookie(cookie).err]
    /\ StreamSame

\* func NewPacketDecoder(config PacketConfig) (*PacketDecoder, error)
NewPacketDecoderCall(config, mem) ==
    /\ open.pc = "api"
    /\ open' = [NoApiCall EXCEPT !.op = "new", !.config = config, !.mem = mem,
                                 !.err = NewPacketDecoder(config, mem).err,
                                 !.abort = NewPacketDecoder(config, mem).abort]
    /\ StreamSame

ParseCall == \E cookie \in Cookies : ParseMagicCookieCall(cookie)
NewCall == \E config \in ConfigsTried : \E mem \in BOOLEAN : NewPacketDecoderCall(config, mem)

NextCookie == ParseCall \/ NewCall

SpecCookie == InitCookie /\ [][NextCookie]_vars


(***************************************************************************)
(* UnpcBlock called on its own: unpc holds the input, and once the call    *)
(* has run what the routine of the switch made of it (special) and what    *)
(* the general routine makes of the same input (general).                  *)
(***************************************************************************)
\* residuals of out[0] and of the warm-up: a rise, a fall, a zigzag
WarmResiduals(n) ==
    { [i \in 1..(n + 1) |-> 1], [i \in 1..(n + 1) |-> -1],
      [i \in 1..(n + 1) |-> IF i % 2 = 1 THEN 2 ELSE -2] }

\* residuals of the samples the routines predict
LoopResiduals ==
    UNION { [1..steps -> {-2, -1, 0, 1, 2}] : steps \in 1..MaxSteps }

\* initial coefficients: all alike, or one at an int16 limit
InitialCoefs(n) ==
    { [k \in 1..n |-> c] : c \in {-32768, -1, 16, 32767} }
      \cup { [k \in 1..n |-> IF k = j THEN c ELSE 0] : j \in {1, n - 1, n}, c \in {-32768, 32767} }

PredictorInputs(n) ==
    { [NoRun EXCEPT !.pc = "ready", !.numActive = n, !.pc1 = w \o l, !.coefs = c,
                    !.chanBits = cb, !.denShift = ds]
        : w \in WarmResiduals(n), l \in LoopResiduals, c \in InitialCoefs(n),
          cb \in {16, 24}, ds \in {0, 4} }

InitPred ==
    /\ cfg = NoConfig
    /\ samples = << >>
    /\ dec = NoDecoder
    /\ last = NoCall
    /\ hist = NoHist
    /\ pk = PkIdle
    /\ open = Opened
    /\ unpc \in PredictorInputs(4) \cup PredictorInputs(8)
    /\ two = NoPair
    /\ fn = NoFn

UnpcBlockCall(n) ==
    /\ unpc.pc = "ready"
    /\ unpc.numActive = n
    /\ unpc' = [unpc EXCEPT
                  !.pc = "done",
                  !.special = UnpcBlock(unpc.pc1, Zeros(Len(unpc.pc1)), Len(unpc.pc1),
                                        unpc.coefs, n, unpc.chanBits, unpc.denShift),
                  !.general = GeneralForm(unpc.pc1, Len(unpc.pc1), unpc.coefs, n,
                                          unpc.chanBits, unpc.denShift)]
    /\ UNCHANGED <<cfg, samples, dec, last, hist, pk, open, two, fn>>

UnpcBlock4Call == UnpcBlockCall(4)
UnpcBlock8Call == UnpcBlockCall(8)

NextPred == UnpcBlock4Call \/ UnpcBlock8Call

SpecPred == InitPred /\ [][NextPred]_vars

(***************************************************************************)
(* UnpcBlock called on slices that may be longer than the block: unpc      *)
(* holds pc1 and out as the caller passes them, num, and once the call has *)
(* run what it made of them (res), and what it makes of them when the      *)
(* residuals from num on are others (alt).  Before the call out holds 99   *)
(* throughout.                                                             *)
(***************************************************************************)
\* residuals of 32 bits, within chanBits and not
Residuals32 == {-2147483647 - 1, -32769, 1, 40000, 2147483647}

\* what the slices hold from num on
Slack == {<< >>, <<7, 7>>}

BlockInputs ==
    { [pc |-> "ready", numActive |-> n, pc1 |-> body \o tail,
       out |-> [i \in 1..(Len(body) + Len(tail)) |-> 99], num |-> Len(body),
       coefs |-> [k \in 1..(IF n = NumActiveDelta THEN 0 ELSE n) |-> 16],
       chanBits |-> cb, denShift |-> IF n = NumActiveDelta THEN 0 ELSE 4,
       res |-> NoResult, alt |-> NoResult]
        : n \in {0, 1, 2, 4, NumActiveDelta},
          body \in UNION { [1..num -> Residuals32] : num \in 1..MaxBlock },
          tail \in Slack, cb \in {16, 24} }

InitBlock ==
    /\ cfg = NoConfig
    /\ samples = << >>
    /\ dec = NoDecoder
    /\ last = NoCall
    /\ hist = NoHist
    /\ pk = PkIdle
    /\ open = Opened
    /\ unpc \in BlockInputs
    /\ two = NoPair
    /\ fn = NoFn

\* UnpcBlock(pc1, out, num, coefs, numActive, chanBits, denShift)
BlockCall ==
    /\ unpc.pc = "ready"
    /\ unpc' = [unpc EXCEPT
                  !.pc = "done",
                  !.res = UnpcBlock(unpc.pc1, unpc.out, unpc.num, unpc.coefs,
                                    unpc.numActive, unpc.chanBits, unpc.denShift),
                  !.alt = UnpcBlock([i \in 1..Len(unpc.pc1) |->
                                       IF i <= unpc.num THEN unpc.pc1[i] ELSE -5],
                                    unpc.out, unpc.num, unpc.coefs,
                                    unpc.numActive, unpc.chanBits, unpc.denShift)]
    /\ UNCHANGED <<cfg, samples, dec, last, hist, pk, open, two, fn>>

NextBlock == BlockCall

SpecBlock == InitBlock /\ [][NextBlock]_vars

(***************************************************************************)
(* The loops of buildSampleTable on lists as readChunkOffsets, readStsc    *)
(* and readStsz return them: fn holds the lists and the table built.  The  *)
(* stsc entries come in any order, as the file has them.                   *)
(***************************************************************************)
SeqsUpTo(n, S) == UNION { [1..k -> S] : k \in 0..n }

StscRuns ==
    SeqsUpTo(2, [FirstChunk : 0..3, SamplesPerChunk : 0..2])

\* stsz: one size for all the samples, or a size for each
StszLists ==
    { StszResult("nil", << >>, 5, count) : count \in 0..MaxPackets }
      \cup { StszResult("nil", sizes, 0, Len(sizes)) : sizes \in SeqsUpTo(MaxPackets, {3, 4}) }

TableInputs ==
    { [pc |-> "ready", chunkOffsets |-> offsets, stscEntries |-> entries, stsz |-> z,
       table |-> << >>]
        : offsets \in SeqsUpTo(MaxPackets, {40, 100}), entries \in StscRuns,
          z \in StszLists }

InitTable ==
    /\ cfg = NoConfig
    /\ samples = << >>
    /\ dec = NoDecoder
    /\ last = NoCall
    /\ hist = NoHist
    /\ pk = PkIdle
    /\ open = Opened
    /\ unpc = NoRun
    /\ two = NoPair
    /\ fn \in TableInputs

\* for chunkIdx := range chunkOffsets { ... } of buildSampleTable
BuildTable ==
    /\ fn.pc = "ready"
    /\ fn' = [fn EXCEPT !.pc = "done",
                        !.table = ChunkLoop(fn.chunkOffsets, fn.stscEntries, fn.stsz, 0, 0)]
    /\ UNCHANGED <<cfg, samples, dec, last, hist, pk, open, unpc, two>>

NextTable == BuildTable

SpecTable == InitTable /\ [][NextTable]_vars

(***************************************************************************)
(* DynDecomp called on its own: fn holds the bytes of the bit buffer, the  *)
(* number of samples asked for and the initial mean, and once the call has *)
(* run what it returned.  The residual buffer holds MaxBlock values.       *)
(***************************************************************************)
\* every byte alone, and pairs of bytes with runs of zeros and of ones
DynBytes ==
    [1..1 -> 0..255] \cup [1..2 -> {0, 8, 24, 128, 240, 255}]

DynInputs ==
    { [pc |-> "ready", data |-> data, numSamples |-> n, mb |-> mb,
       res |-> [err |-> "nil", coefs |-> << >>, turns |-> 0]]
        : data \in DynBytes, n \in 1..MaxBlock, mb \in {10, 4096} }

InitDyn ==
    /\ cfg \in { c \in PktConfigs : c.numChannels = 1 }
    /\ samples = << >>
    /\ dec = NoDecoder
    /\ last = NoCall
    /\ hist = NoHist
    /\ pk = PkIdle
    /\ open = Opened
    /\ unpc = NoRun
    /\ two = NoPair
    /\ fn \in DynInputs

\* DynDecomp(params, bitBuf, predCoefs, numSamples, maxSize)
DynDecompCall ==
    /\ fn.pc = "ready"
    /\ fn' = [fn EXCEPT !.pc = "done",
                        !.res = DynDecomp(SetAGParams(fn.mb, cfg.pb, cfg.kb, cfg.maxRun),
                                          BitBufferReset(fn.data), MaxBlock,
                                          fn.numSamples, cfg.bitDepth)]
    /\ UNCHANGED <<cfg, samples, dec, last, hist, pk, open, unpc, two>>

NextDyn == DynDecompCall

SpecDyn == InitDyn /\ [][NextDyn]_vars

(***************************************************************************)
(* iterChildren, one turn of its loop at a time, on files of box headers   *)
(* with every kind of size field, under a parent that is the whole file    *)
(* (as FindALACTrack starts) or the box at its start, and with a callback  *)
(* that stops, fails or goes on as it likes.  fn.pos is the reader's       *)
(* position at the top of the loop and fn.prev what it was a turn before.  *)
(***************************************************************************)
\* A box header with a 32-bit size field, type 'free'.
HeaderPiece(b0, b3) == <<b0, 0, 0, b3, 102, 114, 101, 101>>

\* Sizes 0 (to the end of the file), 1 (a 64-bit size follows), 7 (less than
\* the header), 8, 16 and 2^30 (past the end); 64-bit sizes 0, 16,
\* 2^63 - 1 and 2^63.
Pieces ==
    { HeaderPiece(0, s) : s \in {0, 1, 7, 8, 16} }
      \cup { HeaderPiece(64, 0) }
      \cup { <<0, 0, 0, 0, 0, 0, 0, v>> : v \in {0, 16} }
      \cup { <<127, 255, 255, 255, 255, 255, 255, 255>>, <<128, 0, 0, 0, 0, 0, 0, 0>> }

RECURSIVE Join(_)
Join(pieces) == IF pieces = << >> THEN << >> ELSE Head(pieces) \o Join(Tail(pieces))

WalkFiles == UNION { { Join(ps) : ps \in [1..n -> Pieces] } : n \in 1..MaxBoxes }

\* The parents iterChildren is given in file.
WalkParents(file) ==
    { BoxInfo("nil", 0, Len(file), 0, << >>) }
      \cup (IF readBoxInfo(file, 0).err = "nil" THEN {readBoxInfo(file, 0)} ELSE {})

\* parent.seekToPayload(reader); end := parent.offset + parent.size
WalkInputs ==
    UNION { { [pc |-> "loop", file |-> file, pos |-> payloadOffset(parent),
               end |-> BoxEnd(parent), prev |-> 0, turns |-> 0, err |-> "nil"]
                : parent \in WalkParents(file) } : file \in WalkFiles }

InitWalk ==
    /\ cfg \in { c \in PktConfigs : c.numChannels = 1 }
    /\ samples = << >>
    /\ dec = NoDecoder
    /\ last = NoCall
    /\ hist = NoHist
    /\ pk = PkIdle
    /\ open = Opened
    /\ unpc = NoRun
    /\ two = NoPair
    /\ fn \in WalkInputs

WalkSame == UNCHANGED <<cfg, samples, dec, last, hist, pk, open, unpc, two>>

WalkReturn(err) == [fn EXCEPT !.pc = "done", !.err = err]

\* if pos >= end { return nil }
IterEnd ==
    /\ fn.pc = "loop"
    /\ fn.pos >= fn.end
    /\ fn' = WalkReturn("nil")
    /\ WalkSame

\* readBoxInfo fails: return nil at the end of the file, the error otherwise
IterNoChild ==
    /\ fn.pc = "loop"
    /\ fn.pos < fn.end
    /\ readBoxInfo(fn.file, fn.pos).err # "nil"
    /\ fn' = WalkReturn(IF readBoxInfo(fn.file, fn.pos).err = "eof" THEN "nil"
                        ELSE readBoxInfo(fn.file, fn.pos).err)
    /\ WalkSame

\* stop, err := callback(child) returns with stop or with an error
IterStop ==
    /\ fn.pc = "loop"
    /\ fn.pos < fn.end
    /\ readBoxInfo(fn.file, fn.pos).err = "nil"
    /\ \E err \in {"nil", "callback"} : fn' = WalkReturn(err)
    /\ WalkSame

\* child.seekToEnd(reader) fails: offset + size does not fit int64, which
\* only the sizes held as Unallocatable may do
IterSeekFails ==
    /\ fn.pc = "loop"
    /\ fn.pos < fn.end
    /\ readBoxInfo(fn.file, fn.pos).err = "nil"
    /\ readBoxInfo(fn.file, fn.pos).size >= Unallocatable
    /\ fn' = WalkReturn("seek")
    /\ WalkSame

\* the callback returns false, nil and child.seekToEnd(reader) moves on
IterNext ==
    /\ fn.pc = "loop"
    /\ fn.pos < fn.end
    /\ readBoxInfo(fn.file, fn.pos).err = "nil"
    /\ fn' = [fn EXCEPT !.prev = fn.pos, !.pos = BoxEnd(readBoxInfo(fn.file, fn.pos)),
                        !.turns = @ + 1]
    /\ WalkSame

NextWalk == IterEnd \/ IterNoChild \/ IterStop \/ IterSeekFails \/ IterNext

SpecWalk == InitWalk /\ [][NextWalk]_vars

\* The loop is not left standing: the goroutine that called it runs on.
SpecWalkLive == SpecWalk /\ WF_vars(NextWalk)

(***************************************************************************)
(* The streaming Decoder's PCM buffer over two packets.  NewDecoder makes  *)
(* it once (buf: make([]byte, 0, frameBytes)) and Read hands all of it     *)
(* (s.buf[:cap(s.buf)]) to decodePacketInto for every packet; fn.buf is    *)
(* its backing array, fn.res what decodePacketInto returned for the last   *)
(* packet and fn.alone what it returns for the second packet when given a  *)
(* buffer fresh from make, as DecodePacket gives it.                       *)
(***************************************************************************)
\* The packets of well-formed elements, whole.
WholePackets ==
    { Pack(AllBits(es, 1)) : es \in { es \in ElemSeqs : \A i \in 1..Len(es) : es[i].valid } }

\* Packets of one channel element.
ChannelPackets ==
    { Pack(e.bits) : e \in { e \in Elements : e.valid /\ e.kind \in {"SCE", "LFE", "CPE"} } }

NoPacketResult == PacketResult(0, {}, FALSE, << >>)

ReuseInputs ==
    { [pc |-> "ready", first |-> p1, second |-> p2, buf |-> << >>,
       res |-> NoPacketResult, alone |-> NoPacketResult]
        : p1 \in ChannelPackets, p2 \in WholePackets }

InitReuse ==
    /\ cfg \in PktConfigs
    /\ samples = << >>
    /\ dec = NoDecoder
    /\ last = NoCall
    /\ hist = NoHist
    /\ pk = PkIdle
    /\ open = Opened
    /\ unpc = NoRun
    /\ two = NoPair
    /\ fn \in { [i EXCEPT !.buf = Zeros(cfg.frameLength * cfg.numChannels)] : i \in ReuseInputs }

\* n, err := s.dec.decodePacketInto(packet, s.buf)
DecodeIntoBuf(packet) ==
    DispatchLoop(cfg, BitBufferReset(packet), fn.buf, 0, cfg.frameLength, 1)

\* s.buf[:n], the bytes Read copies to its caller, in samples
Delivered(r) == SubSeq(r.output, 1, r.n \div BytesPerSample(cfg.bitDepth))

DecodeFirst ==
    /\ fn.pc = "ready"
    /\ fn' = [fn EXCEPT !.pc = "one", !.res = DecodeIntoBuf(fn.first),
                        !.buf = DecodeIntoBuf(fn.first).output]
    /\ UNCHANGED <<cfg, samples, dec, last, hist, pk, open, unpc, two>>

DecodeSecond ==
    /\ fn.pc = "one"
    /\ fn' = [fn EXCEPT !.pc = "two", !.res = DecodeIntoBuf(fn.second),
                        !.buf = DecodeIntoBuf(fn.second).output,
                        !.alone = decodePacketInto(cfg, fn.second)]
    /\ UNCHANGED <<cfg, samples, dec, last, hist, pk, open, unpc, two>>

NextReuse == DecodeFirst \/ DecodeSecond

SpecReuse == InitReuse /\ [][NextReuse]_vars

(***************************************************************************)
(* Two Decoders at work on two sources.  NewDecoder gives each Decoder a   *)
(* PCM buffer of its own (buf: make([]byte, 0, frameBytes)); two.heap      *)
(* holds the backing arrays, two.d the other fields of the two Decoders    *)
(* and two.ret what the last call on each returned.  Beside each Decoder   *)
(* runs a Decoder that is given the same calls and has the source and the  *)
(* memory to itself (two.solo, two.alone).  A byte carries the name of the *)
(* Decoder that decoded it.                                                *)
(***************************************************************************)
Names == {"a", "b"}

\* the tables of the two sources
PairTables ==
    { tbl \in Tables(CHOOSE c \in Configs : c.sampleRate = 3) :
        /\ Len(tbl) = MaxPackets
        /\ \A i \in 1..Len(tbl) :
             \/ tbl[i].st = "ok" /\ tbl[i].ns = 2
             \/ i = Len(tbl) /\ tbl[i].st = "decode" /\ tbl[i].w > 0 }

BufferOfBug(i) == "a"

\* the backing array NewDecoder allocated for Decoder i
BufferOf(i) == i

\* the bytes Decoder i wrote carry its name
Tagged(i, bytes) ==
    [j \in 1..Len(bytes) |-> IF bytes[j][1] \in Names THEN bytes[j] ELSE <<i, bytes[j]>>]

NoReturn == [op |-> "new", got |-> << >>, err |-> "nil", pos |-> 0]

InitTwo ==
    /\ cfg \in { c \in Configs : c.sampleRate = 3 }
    /\ samples = << >>
    /\ dec = NoDecoder
    /\ last = NoCall
    /\ hist = NoHist
    /\ pk = PkIdle
    /\ open = Opened
    /\ unpc = NoRun
    /\ fn = NoFn
    /\ two \in { [tbl |-> [i \in Names |-> IF i = "a" THEN ta ELSE tb],
                  d |-> [i \in Names |-> [NewDecoder(cfg) EXCEPT !.buf = << >>]],
                  heap |-> [i \in Names |-> Tagged(i, NewDecoder(cfg).buf)],
                  solo |-> [i \in Names |-> [NewDecoder(cfg) EXCEPT !.buf = Tagged(i, @)]],
                  ret |-> [i \in Names |-> NoReturn],
                  alone |-> [i \in Names |-> NoReturn]]
                   : ta \in PairTables, tb \in PairTables }

\* Decoder i as its Read and Seek see it
Shared(i) == [two.d[i] EXCEPT !.buf = two.heap[BufferOf(i)]]

ReadReturn(i, r) == [op |-> "read", got |-> Tagged(i, r.got), err |-> r.err, pos |-> 0]

AfterRead(i, r, alone) ==
    [two EXCEPT !.d[i] = [r.s EXCEPT !.buf = << >>],
                !.heap[BufferOf(i)] = Tagged(i, r.s.buf),
                !.ret[i] = ReadReturn(i, r),
                !.solo[i] = [alone.s EXCEPT !.buf = Tagged(i, @)],
                !.alone[i] = ReadReturn(i, alone)]

\* Decoder i: Read(p), len(p) = size
ReadOf(i, size) ==
    /\ two' = AfterRead(i, ReadLoop(cfg, two.tbl[i], Shared(i), size, << >>),
                        ReadLoop(cfg, two.tbl[i], two.solo[i], size, << >>))
    /\ UNCHANGED <<cfg, samples, dec, last, hist, pk, open, unpc, fn>>

SeekReturn(s) == [op |-> "seek", got |-> << >>, err |-> "nil", pos |-> s.sampleIdx]

AfterSeek(i, s, alone) ==
    [two EXCEPT !.d[i] = [s EXCEPT !.buf = << >>],
                !.ret[i] = SeekReturn(s),
                !.solo[i] = alone,
                !.alone[i] = SeekReturn(alone)]

\* Decoder i: Seek(t)
SeekOf(i, targetFrame) ==
    /\ two' = AfterSeek(i, SeekState(Shared(i), two.tbl[i],
                                     TargetSample(cfg, two.tbl[i], targetFrame)),
                        SeekState(two.solo[i], two.tbl[i],
                                  TargetSample(cfg, two.tbl[i], targetFrame)))
    /\ UNCHANGED <<cfg, samples, dec, last, hist, pk, open, unpc, fn>>

ReadA == \E size \in ReadSizes : ReadOf("a", size)
ReadB == \E size \in ReadSizes : ReadOf("b", size)
SeekA ==
    \E t \in PacketTimes(cfg, two.tbl["a"]) : \E tf \in TargetFrames(cfg, t) : SeekOf("a", tf)
SeekB ==
    \E t \in PacketTimes(cfg, two.tbl["b"]) : \E tf \in TargetFrames(cfg, t) : SeekOf("b", tf)

NextTwo == ReadA \/ ReadB \/ SeekA \/ SeekB

SpecTwo == InitTwo /\ [][NextTwo]_vars

(***************************************************************************)
(* Properties of the streaming Decoder (Spec, SpecSeek).                   *)
(***************************************************************************)
FullDecode == ConcatFrom(cfg, samples, 0)
Failures == {"seek", "read", "decode"}

RECURSIVE ConcatRange(_, _, _, _)
\* PCM of packets from..to-1 in table order.
ConcatRange(c, tbl, from, to) ==
    IF from >= to THEN << >>
    ELSE PacketPCM(c, tbl, from) \o ConcatRange(c, tbl, from + 1, to)

\* C1: over a well-formed stream, whatever the sizes of the destination
\* buffers, the bytes returned by the Read calls of a decoder (no Seek) are, in
\* order, the PCM of the packets in table order: always a prefix of it, the
\* whole of it when end-of-stream is reported, and a call that does not reach
\* the end of the table fills its buffer.
C1_ReadConcatenation ==
    (hist.seeks = 0 /\ WellFormed(samples)) =>
        /\ IsPrefix(hist.out, FullDecode)
        /\ last.n <= last.size
        /\ (last.op = "read" /\ ~last.atEnd => last.n = last.size)
        /\ (last.err = "EOF" => hist.out = FullDecode)

C1_Witness ==
    /\ hist.seeks = 0 /\ WellFormed(samples) /\ Len(samples) = 2
    /\ samples[1].ns = 1
    /\ last.err = "EOF" /\ hist.out = FullDecode /\ Len(hist.out) > MaxRead

\* C2: after Seek(t), 0 <= t < Duration, the following Reads deliver the PCM
\* of packets k, k+1, ... with k = floor(t * sample_rate / frame_length), and
\* when every packet is full these bytes are the full decode from the byte
\* offset of the returned time.
C2_SeekDelivers ==
    (hist.seeks = 1 /\ hist.inRange /\ WellFormed(samples)) =>
        /\ IsPrefix(hist.out, ConcatFrom(cfg, samples, hist.k))
        /\ (last.err = "EOF" => hist.out = ConcatFrom(cfg, samples, hist.k))
        /\ (AllFull(cfg, samples) =>
              /\ hist.off <= Len(FullDecode)
              /\ IsPrefix(hist.out, SubSeq(FullDecode, hist.off + 1, Len(FullDecode))))

\* C3 as stated: for every t, Seek returns t' with t' <= t and
\* t - t' < frame_length / sample_rate.
C3_SeekBoundAnyTime ==
    last.op = "seek" =>
        /\ last.ret <= last.t
        /\ (last.t - last.ret) * cfg.sampleRate < cfg.frameLength * Second

\* frame_length / sample_rate in ticks, rounded up.
FrameTicksUp(c) == (c.frameLength * Second + c.sampleRate - 1) \div c.sampleRate

\* C3 amended: for 0 <= t <= Duration, t' <= t and t - t' is at most
\* frame_length / sample_rate rounded up to a whole tick; a negative t gives
\* 0 and a t past Duration gives Duration.
C3_SeekBound ==
    last.op = "seek" =>
        /\ (0 <= last.t /\ last.t <= Duration(cfg, samples)) =>
              /\ last.ret <= last.t
              /\ last.t - last.ret <= FrameTicksUp(cfg)
        /\ (last.t < 0 => last.ret = 0 /\ dec.sampleIdx = 0)
        /\ (last.t > Duration(cfg, samples) =>
              last.ret = Duration(cfg, samples) /\ dec.sampleIdx = Len(samples))
        /\ last.ret = Position(cfg, dec)

C3_Witness ==
    /\ last.op = "seek" /\ 0 < last.t /\ last.t < Duration(cfg, samples)
    /\ last.ret < last.t
    /\ (last.t - last.ret) * cfg.sampleRate >= cfg.frameLength * Second

C5_EndOfStreamAllDelivered ==
    /\ (last.op = "read" /\ last.atEnd) =>
          (IF last.n > 0 THEN last.err = "nil" ELSE last.err = "EOF")
    /\ (last.op = "read" /\ hist.prevEnd /\ last.size > 0) =>
          (last.n = 0 /\ last.err = "EOF")
    /\ (last.err = "EOF" => last.n = 0)
    /\ (last.err = "EOF" /\ hist.virgin) => hist.out = FullDecode

\* C5 amended: the same, but end-of-stream is never reported before every
\* byte of every packet from the index the last Seek selected (0 without a
\* Seek) has been delivered since that Seek.
C5_EndOfStream ==
    /\ (last.op = "read" /\ last.atEnd) =>
          (IF last.n > 0 THEN last.err = "nil" ELSE last.err = "EOF")
    /\ (last.op = "read" /\ hist.prevEnd /\ last.size > 0) =>
          (last.n = 0 /\ last.err = "EOF")
    /\ (last.err = "EOF" => last.n = 0 /\ last.atEnd)
    /\ (last.err = "EOF" => hist.out = ConcatFrom(cfg, samples, hist.start))

C5_Witness ==
    /\ last.op = "read" /\ hist.prevEnd /\ last.size > 0
    /\ last.n = 0 /\ last.err = "EOF"
    /\ hist.seeks = 1 /\ hist.start = 1 /\ Len(hist.out) > 0

C8_NoResync ==
    hist.fail >= 0 =>
        /\ dec.sampleIdx = hist.fail
        /\ \A i \in 1..Len(hist.late) :
              ~(hist.late[i][1] = "pcm" /\ hist.late[i][2] > hist.fail)

\* C24: Read delivers only bytes that a successful decode produced: once a
\* Read has returned the decode error of packet k, the Reads that follow
\* (until a Seek) deliver nothing of the buffer as the failed decode left it,
\* neither bytes an earlier packet left there nor output written in part.
C24_OnlyDecodedBytes ==
    (hist.fail >= 0 /\ samples[hist.fail + 1].st = "decode") => hist.late = << >>

(***************************************************************************)
(* Properties of the packet decoder (SpecPkt).                             *)
(***************************************************************************)
ElementMarks(s) == { i \in 1..Len(s.output) : s.output[i] = s.elems }

\* The element the decoder was in when the call ended is one the packet's
\* author wrote whole and valid, and the packet ends inside it.
TruncatedElement ==
    \E i \in 1..Len(pk.tmpl) :
        /\ pk.tmpl[i].start = pk.elemStart
        /\ pk.tmpl[i].end > 8 * pk.b.Size
        /\ pk.tmpl[i].valid
        /\ \/ pk.tmpl[i].kind \in {"DSE", "FIL"}
           \/ pk.tmpl[i].kind \in {"SCE", "LFE", "CPE"} /\ pk.reserved # -1

\* C7: a packet that ends before the element being decoded is complete
\* makes the decode return an error wrapping ErrDecode and BitstreamOverrun,
\* for every element kind and every truncation point; it never aborts
\* instead.
C7_TruncatedPacketOverrun ==
    (pk.pc = "done" /\ TruncatedElement) =>
        /\ ~pk.panicked
        /\ {"ErrDecode", "BitstreamOverrun"} \subseteq pk.err

\* C9: whenever the dispatcher reads tag 2 (CCE) or tag 5 (PCE), DecodePacket
\* returns no PCM and an error wrapping ErrDecode and UnsupportedElement,
\* whatever was decoded earlier in the packet.
C9_UnsupportedElement ==
    (pk.pc = "done" /\ pk.tag \in {elemCCE, elemPCE}) =>
        /\ ~pk.panicked
        /\ {"ErrDecode", "UnsupportedElement"} \subseteq pk.err
        /\ pk.pcm = << >>
        /\ pk.n = 0

\* A CCE or PCE tag was read after a channel had been decoded and written.
C9_Witness ==
    /\ pk.pc = "done"
    /\ pk.tag \in {elemCCE, elemPCE}
    /\ pk.chanIdx > 0
    /\ \E i \in 1..Len(pk.output) : pk.output[i] # 0

\* The call failed with err on a channel element whose header it had read
\* up to bit upTo of the element, having written no sample of it.
RejectedAt(err, upTo) ==
    /\ ~pk.panicked
    /\ {"ErrDecode", err} \subseteq pk.err
    /\ pk.pcm = << >>
    /\ pk.n = 0
    /\ Cursor(pk.b) = pk.elemStart + upTo
    /\ ElementMarks(pk) = {}

\* C10: an SCE, LFE or CPE header is validated before any sample of the
\* element is decoded or written: a non-zero reserved field yields
\* InvalidHeader, bytes_shifted = 3 yields InvalidShift, each wrapped in
\* ErrDecode, and the packet produces no PCM.
C10_HeaderValidated ==
    (pk.pc = "done" /\ pk.reserved # -1) =>
        /\ pk.reserved # 0 => RejectedAt("InvalidHeader", 3 + 4 + UnusedHeaderBits)
        /\ (pk.reserved = 0 /\ pk.shift = 3)
               => RejectedAt("InvalidShift", 3 + 4 + UnusedHeaderBits + 4)

\* A channel pair element with bytes_shifted = 3 was rejected, and so was,
\* in another packet, an element with a non-zero reserved field.
C10_Witness ==
    /\ pk.pc = "done"
    /\ pk.tag \in {elemSCE, elemLFE, elemCPE}
    /\ \/ pk.reserved = 0 /\ pk.shift = 3 /\ pk.elems > 1
       \/ pk.reserved # 0 /\ pk.elems > 1

\* C11: when the dispatcher reads an END tag the call returns success
\* (nil error, the byte count of the frame) and the cursor stands at the
\* first byte boundary at or after the tag: no bit after the tag was read,
\* whatever the bits left in the current byte and the bytes after it.
C11_EndStops ==
    (pk.pc = "done" /\ pk.tag = elemEND) =>
        /\ ~pk.panicked
        /\ pk.err = {}
        /\ pk.n = pk.numSamples * cfg.numChannels * BytesPerSample(cfg.bitDepth)
        /\ Cursor(pk.b) = 8 * ((pk.elemStart + 3 + 7) \div 8)

\* An END tag was read with a 1 bit right after it in the same byte and a
\* non-zero byte of the packet after that byte.
C11_Witness ==
    /\ pk.pc = "done"
    /\ pk.tag = elemEND
    /\ (pk.elemStart + 3) % 8 # 0
    /\ BitOf(pk.b.Buf, pk.elemStart + 3) = 1
    /\ pk.b.Pos < pk.b.Size
    /\ At(pk.b.Buf, pk.b.Pos) # 0

\* The channel element the call ended in has partial_frame set and a sample
\* count above frameLength, and the packet holds the element whole.
LongPartialFrame ==
    /\ pk.tag \in {elemSCE, elemLFE, elemCPE}
    /\ pk.reserved = 0 /\ pk.shift # 3
    /\ BitOf(pk.b.Buf, pk.elemStart + 3 + 4 + UnusedHeaderBits) = 1
    /\ \/ BitsFrom(pk.b.Buf, pk.elemStart + 23, 16, Len(pk.b.Buf) * 8) > 0
       \/ BitsFrom(pk.b.Buf, pk.elemStart + 39, 16, Len(pk.b.Buf) * 8) > cfg.frameLength
    /\ \E i \in 1..Len(pk.tmpl) :
           pk.tmpl[i].start = pk.elemStart /\ pk.tmpl[i].end <= 8 * pk.b.Size

\* C25: an element with partial_frame set and a sample count above
\* frameLength makes DecodePacket return an error, or at most
\* frameLength * numChannels * bytesPerSample bytes; it never indexes a
\* scratch buffer or the output past its end.
C25_PartialFrameBounded ==
    (pk.pc = "done" /\ LongPartialFrame) =>
        /\ ~pk.panicked
        /\ pk.n <= cfg.frameLength * cfg.numChannels * BytesPerSample(cfg.bitDepth)

(***************************************************************************)
(* Properties of NewDecoder (SpecOpen).                                    *)
(***************************************************************************)
\* C12: opening a source in which the container walk finds no usable ALAC
\* track (FindALACTrack does not return a cookie and a table) fails with an
\* error that wraps ErrNoTrack and returns no decoder: every failure of the
\* walk reaches the caller as NoTrack.
C12_WalkFailsAsNoTrack ==
    (open.pc # "closed" /\ FindALACTrack(open.file, open.mem).err # "nil") =>
        /\ open.pc = "failed"
        /\ "ErrNoTrack" \in open.err
        /\ dec = NoDecoder

\* C13: when the stsz sample count of an otherwise valid file is 0, opening
\* succeeds with an empty packet table, and every Read into a non-empty
\* buffer, the first one included, returns 0 bytes and end-of-stream: the
\* decode delivers no PCM and no failure.
C13_ZeroCountEmpty ==
    (open.pc # "closed" /\ open.file \in ZeroedFiles) =>
        /\ open.pc = "open"
        /\ samples = << >>
        /\ hist.out = << >>
        /\ (last.op = "read" /\ last.size > 0) => (last.n = 0 /\ last.err = "EOF")

C13_Witness ==
    /\ open.file = ZeroedStsz(<<PacketA, PacketB>>)
    /\ open.pc = "open"
    /\ last.op = "read"
    /\ last.size > 0
    /\ last.err = "EOF"
    /\ hist.seeks = 0

\* C19: at every step of decoding a packet the bit reader's cursor satisfies
\* pos * 8 + bit_idx <= padded_len * 8 with 0 <= bit_idx <= 7, where
\* padded_len is the packet length plus the 4 zero pad bytes.
C19_CursorInside ==
    /\ pk.b.BitIdx \in 0..7
    /\ Len(pk.b.Buf) = pk.b.Size + bitBufferPadding
    /\ Cursor(pk.b) <= Len(pk.b.Buf) * 8

\* C17: once the first packet has been decoded no decoder buffer grows: the
\* capacities of the packet buffer and of the bit reader's backing store
\* are, after every later packet, what they were after the first one (the
\* shift, mix and predictor buffers are sized by NewPacketDecoder and never
\* assigned again).
C17_NoGrowth ==
    (open.pc = "open" /\ open.first # NoCaps) => Caps(dec) = open.first

(***************************************************************************)
(* Properties of ParseMagicCookie and NewPacketDecoder (SpecCookie).       *)
(***************************************************************************)
RECURSIVE BigEndian(_, _, _)
\* the n bytes of data from offset off on, as a big-endian number
BigEndian(data, off, n) ==
    IF n = 0 THEN 0 ELSE BigEndian(data, off, n - 1) * 256 + At(data, off + n - 1)

\* the four bytes of data from offset off on, as a big-endian number;
\* numbers of 2^30 and more are held as Far
WordAt(data, off) ==
    IF At(data, off) >= 64 THEN Far ELSE BigEndian(data, off, 4)

\* The fields of the ALACSpecificConfig that data begins with, at their
\* offsets.
ConfigAt(data) ==
    [frameLength |-> WordAt(data, 0), bitDepth |-> At(data, 5),
     pb |-> At(data, 6), mb |-> At(data, 7), kb |-> At(data, 8),
     numChannels |-> At(data, 9), maxRun |-> BigEndian(data, 10, 2),
     maxFrameBytes |-> WordAt(data, 12), avgBitRate |-> WordAt(data, 16),
     sampleRate |-> WordAt(data, 20)]

\* What is left of the cookie once the wrappers are stripped.
Stripped(cookie) ==
    LET Alac(data) == IF HasAtom(data, alacFourCC) THEN SkipAtom(data) ELSE data
    IN  Alac(IF HasAtom(cookie, fccFrma) THEN SkipAtom(cookie) ELSE cookie)

\* C14: ParseMagicCookie fails, with an error wrapping ErrConfig, in exactly
\* two cases, checked in this order: fewer than 24 bytes are left after the
\* wrappers are stripped (InvalidCookie), or the byte at offset 4 of the
\* config is greater than 0 (UnsupportedVersion); for every other input it
\* succeeds and returns the fields at their fixed big-endian offsets.
C14_TwoFailures ==
    open.op = "parse" =>
        IF Len(Stripped(open.cookie)) < 24
        THEN open.err = {"ErrConfig", "InvalidCookie"}
        ELSE IF At(Stripped(open.cookie), 4) > 0
        THEN open.err = {"ErrConfig", "UnsupportedVersion"}
        ELSE open.err = {} /\ open.config = ConfigAt(Stripped(open.cookie))

\* a cookie that is too short and whose version byte is not 0
C14_Witness ==
    /\ open.op = "parse"
    /\ Len(Stripped(open.cookie)) \in 5..23
    /\ At(Stripped(open.cookie), 4) > 0
    /\ open.err = {"ErrConfig", "InvalidCookie"}

\* The result of parsing the bare config c.
Bare(c) ==
    IF At(c, 4) > 0 THEN [err |-> {"ErrConfig", "UnsupportedVersion"}, config |-> NoConfig]
    ELSE [err |-> {}, config |-> ConfigAt(c)]

\* The cookie of the last call is the config c behind one of wrappers, and
\* it parsed as c does on its own.
ParsedAsBare(wrappers) ==
    \A w \in wrappers : \A c \in BareConfigs :
        (open.op = "parse" /\ open.cookie = w \o c) =>
            (open.err = Bare(c).err /\ open.config = Bare(c).config)

\* C15 as stated: a cookie made of an 8-byte frma atom and/or a 12-byte
\* alac atom header followed by the 24-byte config parses to the same Config
\* as the bare config.
C15_Frma8Skipped ==
    ParsedAsBare({<< >>, Frma8, AlacHeader, Frma8 \o AlacHeader})

\* C15, amended: a cookie made of a 12-byte frma atom (size, 'frma', format)
\* and/or the 12-byte alac atom header followed by the 24-byte config
\* parses to the same Config as the bare config; at most one of each is
\* skipped: behind two wrappers of a kind a valid config does not parse to
\* its Config.
C15_WrappersSkipped ==
    /\ ParsedAsBare({<< >>, FrmaAtom, AlacHeader, FrmaAtom \o AlacHeader})
    /\ \A w \in {AlacHeader \o AlacHeader, FrmaAtom \o FrmaAtom} : \A c \in BareConfigs :
            (open.op = "parse" /\ open.cookie = w \o c /\ Bare(c).err = {}) =>
                (open.err # {} \/ open.config # Bare(c).config)

C15_Witness ==
    /\ open.op = "parse"
    /\ open.cookie = FrmaAtom \o AlacHeader \o ConfigBytes(0, 24)
    /\ open.err = {}
    /\ open.config.bitDepth = 24
    /\ open.config.sampleRate = 3

\* C16: NewPacketDecoder rejects every config whose bit depth is not one of
\* 16, 20, 24, 32 with an error wrapping ErrConfig and UnsupportedBitDepth,
\* and returns no error for those four: a decoder it has made has one of the
\* four depths.
C16_BitDepthChecked ==
    open.op = "new" =>
        IF open.config.bitDepth \in {16, 20, 24, 32}
        THEN open.err = {}
        ELSE open.err = {"ErrConfig", "UnsupportedBitDepth"} /\ ~open.abort

C16_Witness ==
    /\ open.op = "new"
    /\ open.config.bitDepth = 13
    /\ open.err = {"ErrConfig", "UnsupportedBitDepth"}

C20_SpecialisedAsGeneral ==
    unpc.pc = "done" => unpc.special = unpc.general

\* What C27 says of Read after the end of stream and of Seek to a negative
\* time.
EndOfStreamSticks ==
    /\ (last.op = "read" /\ last.size > 0 /\ hist.endedBefore)
          => (last.err = "EOF" /\ last.n = 0)
    /\ (last.op = "seek" /\ last.t < 0) => (dec.sampleIdx = 0 /\ last.ret = 0)

\* The last call was a Seek that selected no packet.
SeekToEnd == hist.ended /\ dec.sampleIdx = Len(samples)

PerChunkLast(entries, c) ==
    LET upTo == { i \in 1..Len(entries) : entries[i].FirstChunk <= c }
    IN  IF upTo = {} THEN 0
        ELSE entries[CHOOSE i \in upTo : \A j \in upTo : j <= i].SamplesPerChunk

\* samples_per_chunk of the entry before the first one whose first_chunk is
\* above c
PerChunkRun(entries, c) ==
    LET above == { i \in 1..Len(entries) : entries[i].FirstChunk > c }
        stop == IF above = {} THEN Len(entries) + 1
                ELSE CHOOSE i \in above : \A j \in above : i <= j
    IN  IF stop = 1 THEN 0 ELSE entries[stop - 1].SamplesPerChunk

\* the size of the j-th packet, j from 1
SizeOf(z, j) == IF z.constantSize # 0 THEN z.constantSize ELSE z.sizes[j]

RECURSIVE SizesBetween(_, _, _)
\* the sizes of the packets from to j - 1 together
SizesBetween(z, from, j) ==
    IF from >= j THEN 0 ELSE SizeOf(z, from) + SizesBetween(z, from + 1, j)

RECURSIVE EmittedBefore(_, _, _, _)
\* how many packets the chunks before the 1-based chunk c hold, per[c] being
\* the samples per chunk
EmittedBefore(per, sampleCount, c, upTo) ==
    IF c >= upTo THEN 0
    ELSE Min(sampleCount, Min(per[c], sampleCount)
                            + EmittedBefore(per, sampleCount, c + 1, upTo))

\* table is the table of the claim for the samples per chunk per
ChunkByChunk(table, offsets, z, per) ==
    LET First(c) == EmittedBefore(per, z.sampleCount, 1, c)
    IN  /\ Len(table) = First(Len(offsets) + 1)
        /\ Len(table) <= z.sampleCount
        /\ \A c \in 1..Len(offsets) :
             \A j \in (First(c) + 1)..First(c + 1) :
                 /\ table[j].Size = SizeOf(z, j)
                 /\ table[j].Offset = offsets[c] + SizesBetween(z, First(c) + 1, j)

\* C22 as stated: the table holds, chunk by chunk, samples_per_chunk(c)
\* packets for the 1-based chunk c, samples_per_chunk(c) from the last stsc
\* entry whose first_chunk <= c; the first packet of a chunk starts at the
\* chunk offset, each following one at the offset of the one before plus its
\* size; sizes are taken from stsz in running order and no more packets are
\* emitted than the stsz sample count.
C22_LastEntryUpTo ==
    fn.pc = "done" =>
        ChunkByChunk(fn.table, fn.chunkOffsets, fn.stsz,
                     [c \in 1..Len(fn.chunkOffsets) |-> PerChunkLast(fn.stscEntries, c)])

\* C22: the same, with samples_per_chunk(c) from the stsc entry before the
\* first one whose first_chunk is above c (0 when the first entry is), which
\* is the last entry whose first_chunk <= c when the entries are in
\* increasing order of first_chunk.
C22_RunLength ==
    fn.pc = "done" =>
        ChunkByChunk(fn.table, fn.chunkOffsets, fn.stsz,
                     [c \in 1..Len(fn.chunkOffsets) |-> PerChunkRun(fn.stscEntries, c)])

\* a chunk of two packets, and a second chunk the sample count leaves
\* nothing for
C22_Witness ==
    /\ fn.pc = "done"
    /\ fn.chunkOffsets = <<100, 40>>
    /\ fn.stscEntries = <<[FirstChunk |-> 1, SamplesPerChunk |-> 2],
                          [FirstChunk |-> 2, SamplesPerChunk |-> 1]>>
    /\ fn.stsz.sizes = <<3, 4>>
    /\ fn.table = <<SampleInfo(100, 3), SampleInfo(103, 4)>>

(***************************************************************************)
(* Properties of the entropy decoder (SpecDyn).                            *)
(***************************************************************************)
\* C23: DynDecomp writes no residual at or beyond index numSamples, also
\* when it returns SampleOverrun for a run of zeros that would pass it; when
\* it returns without error it has written exactly numSamples residuals;
\* and its loop takes at most numSamples turns.
C23_RunsStayInside ==
    fn.pc = "done" =>
        /\ Len(fn.res.coefs) <= fn.numSamples
        /\ fn.res.err = "nil" => Len(fn.res.coefs) = fn.numSamples
        /\ fn.res.err = "SampleOverrun" => Len(fn.res.coefs) < fn.numSamples
        /\ fn.res.turns <= fn.numSamples

\* a residual 0 and then a run of two zeros, of which there is room for one
C23_Witness ==
    /\ fn.pc = "done"
    /\ fn.data = <<24>>
    /\ fn.numSamples = 2
    /\ fn.mb = 10
    /\ fn.res.err = "SampleOverrun"
    /\ fn.res.coefs = <<0>>

(***************************************************************************)
(* Properties of the container walk (SpecWalkLive).                        *)
(***************************************************************************)
\* Every turn that does not leave the loop has moved the reader forward by
\* a box header at least.
Advances == (fn.pc \in {"loop", "done"} /\ fn.turns > 0) => fn.pos >= fn.prev + smallHeaderSize

\* C29: whatever the size fields say, every turn of iterChildren leaves the
\* loop or moves the reader forward by 8 bytes or more, and the loop ends.
C29_WalkTerminates == [](Advances) /\ <>(fn.pc = "done")

\* The loop has ended at the end of the file after a box with a 64-bit
\* size and another box.
C29_Witness ==
    /\ fn.pc = "done" /\ fn.turns >= 2 /\ fn.err = "nil"
    /\ fn.pos = Len(fn.file)
    /\ Uint32(fn.file, 0) = 1

(***************************************************************************)
(* Properties of the PCM buffer over two packets (SpecReuse).              *)
(***************************************************************************)
\* C28: the samples delivered for a packet that decodes are those
\* DecodePacket returns for it: they depend on the packet and the config,
\* not on what the packet before left in the buffer.
C28_FreshBytes ==
    (fn.pc = "two" /\ fn.res.err = {} /\ ~fn.res.panicked)
        => Delivered(fn.res) = Delivered(fn.alone)

(***************************************************************************)
(* Properties of UnpcBlock on its slices (SpecBlock).                      *)
(***************************************************************************)
\* the low bits bits of x read as a signed number
SignedLow(x, bits) ==
    IF (x % 2^bits) >= 2^(bits - 1) THEN (x % 2^bits) - 2^bits ELSE x % 2^bits

RECURSIVE LowSum(_, _, _)
\* the low bits bits of pc1[0] + ... + pc1[i]
LowSum(pc1, i, bits) ==
    IF i < 0 THEN 0 ELSE (LowSum(pc1, i - 1, bits) + (At(pc1, i) % 2^bits)) % 2^bits

DeltaRun == unpc.pc = "done" /\ unpc.numActive = NumActiveDelta

\* C21 as stated: in delta mode out[i] is the sum of residuals[0..i]
\* sign-extended to chanBits for every i in 0..num-1, i = 0 included,
\* whatever 32-bit values the residuals have.
C21_DeltaSumFromZero ==
    DeltaRun =>
        \A i \in 0..(unpc.num - 1) :
            At(unpc.res.out, i) = SignedLow(LowSum(unpc.pc1, i, unpc.chanBits), unpc.chanBits)

\* C21: in delta mode out[0] is residuals[0] as it is, and out[i] is the sum
\* of residuals[0..i] sign-extended to chanBits for every i in 1..num-1,
\* whatever 32-bit values the residuals have.
C21_DeltaSum ==
    DeltaRun =>
        /\ At(unpc.res.out, 0) = At(unpc.pc1, 0)
        /\ \A i \in 1..(unpc.num - 1) :
               At(unpc.res.out, i)
                 = SignedLow(LowSum(unpc.pc1, i, unpc.chanBits), unpc.chanBits)

\* a delta run of three samples whose first residual does not fit chanBits
\* and whose sum passes the int32 limit
C21_Witness ==
    /\ DeltaRun
    /\ unpc.num = 3
    /\ unpc.pc1[1] = 2147483647 /\ unpc.pc1[2] = 1 /\ unpc.pc1[3] = 40000
    /\ unpc.res.out[1] = 2147483647
    /\ unpc.res.out[2] = 0

\* C30: UnpcBlock reads only residuals[0..num-1] and writes only
\* out[0..num-1], for every num >= 1 and numActive, blocks shorter than
\* numActive + 1 samples included: it returns, what it leaves in out does not
\* depend on the residuals from num on, and out is from num on as it was.
C30_BlockOnly ==
    unpc.pc = "done" =>
        /\ unpc.res.err = "nil"
        /\ unpc.res = unpc.alt
        /\ \A i \in (unpc.num + 1)..Len(unpc.out) : unpc.res.out[i] = unpc.out[i]

====
